---- MODULE Spec2Model ----
(***************************************************************************)
(* A model of climan (src/src/index.ts): the resolver parserRun, the name  *)
(* codec, the bundled value parsers, the help renderer's option groups and *)
(* the two entry points CliMan.run / CliMan.runNoWrapper.                  *)
(*                                                                         *)
(* A JavaScript string is a sequence of one-character strings, so that     *)
(* arg[0], arg.slice(2), arg.length and the regexp replacements are        *)
(* computed as the code computes them.  Indices are 0-based as in the      *)
(* source; At(s, k) reads s[k].                                            *)
(***************************************************************************)
EXTENDS Integers, Sequences, FiniteSets, TLC

VARIABLES
    config,                 \* CliMan.config: which command tree the instance holds
    lastIndex,              \* the lastIndex of the tree's RegExp object (0 without one)
    pc,                     \* position: idle, prime, loop, thrown, returned, done
    mode,                   \* the entry point called: "run" or "runNoWrapper"
    args,                   \* parserRun's args of the current frame
    command,                \* parserRun's command of the current frame (a node id)
    path,                   \* the command stack (node ids), shared by all frames
    options,                \* the options object, shared by all frames
    parameters,             \* the current frame's parameters array
    currentParameterIndex,  \* the current frame's positional cursor
    i,                      \* the current frame's loop index
    calls,                  \* handler invocations so far in this parse
    thrown,                 \* the CliParseError in flight or propagated, if any
    out                     \* what the parse wrote to the console

vars == <<config, lastIndex, pc, mode, args, command, path, options, parameters,
          currentParameterIndex, i, calls, thrown, out>>

-----------------------------------------------------------------------------
(* Bounds *)

\* the longest argument list enumerated (beside the named scenarios)
MaxArgs == 3

\* the longest name the codec is applied to
MaxWord == 3

-----------------------------------------------------------------------------
(* JavaScript values and strings *)

\* an optional field: None when the property is undefined, Some(v) otherwise
None == <<>>
Some(v) == <<v>>

Undefined == [t |-> "undefined"]
Null == [t |-> "null"]
Str(s) == [t |-> "string", v |-> s]
Num(n) == [t |-> "number", v |-> n]
Bool(b) == [t |-> "boolean", v |-> b]
Arr(a) == [t |-> "array", v |-> a]

\* s[k] of a string or array: "undefined" past the end
At(s, k) == IF k >= 0 /\ k < Len(s) THEN s[k + 1] ELSE "undefined"

\* s.slice(k)
Slice(s, k) == SubSeq(s, k + 1, Len(s))

LowerCase == <<"a", "b", "c", "d", "e", "f", "g", "h", "i", "j", "k", "l", "m",
               "n", "o", "p", "q", "r", "s", "t", "u", "v", "w", "x", "y", "z">>
UpperCase == <<"A", "B", "C", "D", "E", "F", "G", "H", "I", "J", "K", "L", "M",
               "N", "O", "P", "Q", "R", "S", "T", "U", "V", "W", "X", "Y", "Z">>
Digits == <<"0", "1", "2", "3", "4", "5", "6", "7", "8", "9">>

IndexIn(seq, c) == IF \E k \in 1..Len(seq) : seq[k] = c
                   THEN CHOOSE k \in 1..Len(seq) : seq[k] = c
                   ELSE 0

toUpperCase(c) == IF IndexIn(LowerCase, c) > 0 THEN UpperCase[IndexIn(LowerCase, c)] ELSE c
toLowerCase(c) == IF IndexIn(UpperCase, c) > 0 THEN LowerCase[IndexIn(UpperCase, c)] ELSE c
IsDigit(c) == IndexIn(Digits, c) > 0
IsUpper(c) == IndexIn(UpperCase, c) > 0

-----------------------------------------------------------------------------
(* Name codec *)

RECURSIVE toCamel(_)
\* str.replace(/-./g, m => m[1].toUpperCase())
toCamel(str) ==
    IF str = <<>> THEN <<>>
    ELSE IF str[1] = "-" /\ Len(str) >= 2
         THEN <<toUpperCase(str[2])>> \o toCamel(Slice(str, 2))
         ELSE <<str[1]>> \o toCamel(Slice(str, 1))

RECURSIVE fromCamelKeepCase(_)
\* the replacement without toLowerCase
fromCamelKeepCase(str) ==
    IF str = <<>> THEN <<>>
    ELSE IF IsUpper(str[1])
         THEN <<"-", str[1]>> \o fromCamelKeepCase(Slice(str, 1))
         ELSE <<str[1]>> \o fromCamelKeepCase(Slice(str, 1))

RECURSIVE fromCamel(_)
\* str.replace(/[A-Z]/g, m => "-" + m.toLowerCase())
fromCamel(str) ==
    IF str = <<>> THEN <<>>
    ELSE IF IsUpper(str[1])
         THEN <<"-", toLowerCase(str[1])>> \o fromCamel(Slice(str, 1))
         ELSE <<str[1]>> \o fromCamel(Slice(str, 1))

-----------------------------------------------------------------------------
(* Value parsers: a parser returns a value, or Null to reject *)

NoParser == [fn |-> "none"]
IntegerParser == [fn |-> "integer"]
RangeParser(min, max, int) == [fn |-> "range", min |-> min, max |-> max, integer |-> int]
EnumParser(values) == [fn |-> "enum", values |-> values]
RegexParser(re) == [fn |-> "regex", re |-> re]

\* the RegExp object /x/y: a literal pattern with the sticky flag
StickyX == [source |-> <<"x">>, sticky |-> TRUE]

AllDigits(s) == \A k \in 1..Len(s) : IsDigit(s[k])

RECURSIVE DigitsValue(_)
DigitsValue(s) ==
    IF s = <<>> THEN 0
    ELSE 10 * DigitsValue(SubSeq(s, 1, Len(s) - 1)) + (IndexIn(Digits, s[Len(s)]) - 1)

\* value.match(/^[+-]?\d+$/)
MatchesInteger(value) ==
    LET body == IF Len(value) > 0 /\ value[1] \in {"+", "-"} THEN Slice(value, 1) ELSE value
    IN  Len(body) > 0 /\ AllDigits(body)

\* parseInt(value, 10) of a string that matches /^[+-]?\d+$/
parseInt(value) ==
    IF value[1] = "-" THEN 0 - DigitsValue(Slice(value, 1))
    ELSE IF value[1] = "+" THEN DigitsValue(Slice(value, 1))
    ELSE DigitsValue(value)

integer(value) == IF MatchesInteger(value) THEN Num(parseInt(value)) ELSE Null

NumberParser == [fn |-> "number"]

\* the number m / 10^e, and the number NaN
Decimal(m, e) == [t |-> "number", v |-> m, e |-> e]
NaN == [t |-> "number", v |-> "NaN"]

\* the length of [+-]? matched at the 0-based position from
SignLen(s, from) == IF from < Len(s) /\ At(s, from) \in {"+", "-"} THEN 1 ELSE 0

RECURSIVE DigitsFrom(_, _)
\* the length of \d* matched at the 0-based position from
DigitsFrom(s, from) ==
    IF from < Len(s) /\ IsDigit(At(s, from)) THEN 1 + DigitsFrom(s, from + 1) ELSE 0

\* ^[+-]?[.]\d+ : the first alternative, tied to the start of the string only
LeadingDotDecimal(value) ==
    LET a == SignLen(value, 0)
    IN  a < Len(value) /\ At(value, a) = "." /\ DigitsFrom(value, a + 1) >= 1

\* [+-]?\d+([.]\d+)?$ matched from the 0-based position from: the second
\* alternative, tied to the end of the string only
DigitsToTheEnd(value, from) ==
    LET a == from + SignLen(value, from)
        d == DigitsFrom(value, a)
    IN  /\ d >= 1
        /\ \/ a + d = Len(value)
           \/ /\ a + d < Len(value)
              /\ At(value, a + d) = "."
              /\ DigitsFrom(value, a + d + 1) >= 1
              /\ a + d + 1 + DigitsFrom(value, a + d + 1) = Len(value)

\* value.match(/^[+-]?[.]\d+|[+-]?\d+([.]\d+)?$/)
MatchesNumber(value) ==
    \/ LeadingDotDecimal(value)
    \/ \E from \in 0..Len(value) : DigitsToTheEnd(value, from)

\* parseFloat(value): the value of the longest prefix that is a decimal
\* literal, NaN when there is none (no white space, exponent or Infinity in
\* the strings tried)
parseFloat(value) ==
    LET a == SignLen(value, 0)
        d == DigitsFrom(value, a)
        f == IF a + d < Len(value) /\ At(value, a + d) = "."
             THEN DigitsFrom(value, a + d + 1) ELSE 0
        m == DigitsValue(SubSeq(value, a + 1, a + d) \o SubSeq(value, a + d + 2, a + d + 1 + f))
    IN  IF d + f = 0 THEN NaN
        ELSE Decimal(IF a = 1 /\ value[1] = "-" THEN 0 - m ELSE m, f)

\* CliMan.parsers.number
number(value) == IF MatchesNumber(value) THEN parseFloat(value) ELSE Null

\* CliMan.parsers.range(min, max, true): max = None when not given
range(p, value) ==
    LET parsed == integer(value)
    IN  IF parsed # Null /\ parsed.v >= p.min /\ (p.max = None \/ parsed.v < p.max[1])
        THEN parsed ELSE Null

\* CliMan.parsers.enum(...values)
enum(p, value) == IF \E k \in 1..Len(p.values) : p.values[k] = value THEN Str(value) ELSE Null

\* the literal pattern of re is found in value at the 0-based position from
OccursAt(re, value, from) ==
    /\ from + Len(re.source) <= Len(value)
    /\ \A k \in 1..Len(re.source) : value[from + k] = re.source[k]

\* value.match(re) is not null, for a RegExp without the global flag: a
\* sticky RegExp is tried at its lastIndex only, any other at every position
match(re, value) ==
    IF re.sticky THEN OccursAt(re, value, lastIndex)
    ELSE \E from \in 0..Len(value) : OccursAt(re, value, from)

\* re.lastIndex after value.match(re): a sticky RegExp is left at the end of
\* the match, or at 0 when there is none
LastIndexAfter(re, value) ==
    IF re.sticky
    THEN IF match(re, value) THEN lastIndex + Len(re.source) ELSE 0
    ELSE lastIndex

\* CliMan.parsers.regex(re): group is not given
regex(p, value) == IF match(p.re, value) THEN Str(value) ELSE Null

\* option.parser(raw) / parameter.parser(raw)
ApplyParser(p, raw) ==
    CASE p.fn = "integer" -> integer(raw)
      [] p.fn = "range" -> range(p, raw)
      [] p.fn = "enum" -> enum(p, raw)
      [] p.fn = "regex" -> regex(p, raw)
      [] p.fn = "number" -> number(raw)

\* x.parser ? x.parser(raw) : raw
ParseOrRaw(spec, raw) == IF spec.parser.fn # "none" THEN ApplyParser(spec.parser, raw) ELSE Str(raw)

-----------------------------------------------------------------------------
(* The specification model: CliOption, CliParameter, CliCommand *)

\* a CliOption with only name and symbol set (symbol "" when not given)
Option(name, symbol) ==
    [name |-> name, symbol |-> symbol, boolean |-> FALSE, handler |-> FALSE,
     valueName |-> None, default |-> None, parser |-> NoParser, repeatable |-> FALSE, required |-> FALSE]

\* a CliParameter with only name set
Parameter(name) ==
    [name |-> name, default |-> None, parser |-> NoParser,
     repeatable |-> FALSE, optional |-> FALSE]

\* a SubCommand: options and commands are optional fields, children are node ids
SubCommand(name, opts, children) ==
    [name |-> name, options |-> opts, commands |-> Some(children),
     parameters |-> None, handler |-> FALSE]

\* an ActionCommand
ActionCommand(name, opts, params) ==
    [name |-> name, options |-> opts, commands |-> None,
     parameters |-> params, handler |-> TRUE]

\* examples/forest.ts, nodes numbered in declaration order; 1 is the root
Forest == <<
    SubCommand(<<"f", "o", "r", "e", "s", "t">>, Some(<<
        [Option(<<"h", "e", "l", "p">>, "h") EXCEPT !.boolean = TRUE, !.handler = TRUE],
        [Option(<<"v", "e", "r", "s", "i", "o", "n">>, "") EXCEPT !.boolean = TRUE, !.handler = TRUE],
        [Option(<<"v", "e", "r", "b", "o", "s", "e">>, "v") EXCEPT !.boolean = TRUE] >>),
        <<2, 5>>),
    SubCommand(<<"a", "d", "d">>, Some(<<
        [Option(<<"d", "r", "y", "R", "u", "n">>, "") EXCEPT !.boolean = TRUE],
        [Option(<<"s", "e", "c", "t", "o", "r", "I", "d">>, "s") EXCEPT !.parser = IntegerParser, !.required = TRUE] >>),
        <<3, 4>>),
    ActionCommand(<<"t", "r", "e", "e">>, Some(<<
        [Option(<<"t", "y", "p", "e">>, "t") EXCEPT !.valueName = Some(<<"T", "Y", "P", "E">>),
            !.default = Some(<<"p", "i", "n", "e">>), !.parser = EnumParser(<<<<"p", "i", "n", "e">>, <<"o", "a", "k">>, <<"m", "a", "p", "l", "e">>, <<"w", "i", "l", "l", "o", "w">>>>)],
        [Option(<<"c", "o", "u", "n", "t">>, "c") EXCEPT !.valueName = Some(<<"N">>),
            !.default = Some(<<"1">>), !.parser = RangeParser(1, Some(10), TRUE)],
        [Option(<<"u", "s", "e", "F", "e", "r", "t", "i", "l", "i", "z", "e", "r">>, "f") EXCEPT !.valueName = Some(<<"N", "A", "M", "E">>),
            !.repeatable = TRUE] >>),
        None),
    ActionCommand(<<"a", "n", "i", "m", "a", "l">>, None, Some(<<
        [Parameter(<<"s", "p", "e", "c", "i", "e", "s">>) EXCEPT !.repeatable = TRUE, !.optional = TRUE] >>)),
    ActionCommand(<<"m", "o", "v", "e">>, Some(<<
        [Option(<<"a", "l", "l">>, "a") EXCEPT !.boolean = TRUE] >>),
        Some(<<
        Parameter(<<"o", "b", "j", "e", "c", "t">>),
        [Parameter(<<"d", "e", "s", "t", "i", "n", "a", "t", "i", "o", "n">>) EXCEPT !.default = Some(<<"1">>), !.parser = IntegerParser],
        [Parameter(<<"s", "o", "u", "r", "c", "e">>) EXCEPT !.optional = TRUE, !.parser = IntegerParser] >>))
>>

\* a second tree in the README's terms, with the shapes forest.ts does not have:
\* an option redeclared by a descendant with another shape, a handler option
\* taking a value, a required repeatable option, two required parameters, a
\* repeatable parameter that is not optional, an empty default, an option
\* named like a property every JavaScript object inherits, and a Leaf with two
\* required options of which the first is so named
Lab == <<
    SubCommand(<<"l", "a", "b">>, Some(<<
        [Option(<<"l", "e", "v", "e", "l">>, "l") EXCEPT !.parser = IntegerParser],
        [Option(<<"e", "x", "p", "l", "a", "i", "n">>, "e") EXCEPT !.parser = IntegerParser, !.handler = TRUE] >>),
        <<2, 3, 4>>),
    ActionCommand(<<"r", "u", "n">>, Some(<<
        [Option(<<"l", "e", "v", "e", "l">>, "l") EXCEPT !.boolean = TRUE] >>),
        Some(<<
        [Parameter(<<"f", "i", "l", "e", "s">>) EXCEPT !.repeatable = TRUE] >>)),
    ActionCommand(<<"p", "u", "t">>, Some(<<
        [Option(<<"t", "a", "g">>, "g") EXCEPT !.repeatable = TRUE, !.required = TRUE] >>),
        Some(<<
        Parameter(<<"k", "e", "y">>),
        Parameter(<<"v", "a", "l">>) >>)),
    SubCommand(<<"o", "u", "t">>, Some(<<
        [Option(<<"n", "o", "t", "e">>, "") EXCEPT !.default = Some(<<>>)] >>),
        <<5, 6>>),
    ActionCommand(<<"f", "m", "t">>, Some(<<
        [Option(<<"t", "o", "S", "t", "r", "i", "n", "g">>, "") EXCEPT !.required = TRUE] >>),
        None),
    ActionCommand(<<"l", "o", "g">>, Some(<<
        [Option(<<"v", "a", "l", "u", "e", "O", "f">>, "") EXCEPT !.required = TRUE],
        [Option(<<"k", "i", "n", "d">>, "k") EXCEPT !.required = TRUE] >>),
        None)
>>

\* a third tree for the edges of the value rules: a default its parser
\* rejects (option depth, parameter slot), an empty default (parameter item),
\* a symbol that is itself a dash (option mark), and two children declared
\* under one name (get)
Kit == <<
    SubCommand(<<"k", "i", "t">>, Some(<<
        [Option(<<"d", "e", "p", "t", "h">>, "d") EXCEPT !.default = Some(<<"x">>), !.parser = IntegerParser],
        Option(<<"m", "a", "r", "k">>, "-") >>),
        <<2, 3>>),
    ActionCommand(<<"g", "e", "t">>, None, Some(<<
        [Parameter(<<"i", "t", "e", "m">>) EXCEPT !.default = Some(<<>>)],
        [Parameter(<<"s", "l", "o", "t">>) EXCEPT !.default = Some(<<"x">>), !.parser = IntegerParser] >>)),
    ActionCommand(<<"g", "e", "t">>, None, None)
>>

\* a fourth tree for the help of a path: a required option declared again,
\* unchanged, by a descendant (token), a Leaf without options (show), and a
\* Leaf whose only option is required (flip)
Deck == <<
    SubCommand(<<"d", "e", "c", "k">>, Some(<<
        [Option(<<"t", "o", "k", "e", "n">>, "t") EXCEPT !.required = TRUE],
        [Option(<<"q", "u", "i", "e", "t">>, "q") EXCEPT !.boolean = TRUE] >>),
        <<2>>),
    SubCommand(<<"c", "a", "r", "d">>, Some(<<
        [Option(<<"t", "o", "k", "e", "n">>, "t") EXCEPT !.required = TRUE],
        [Option(<<"w", "i", "d", "e">>, "") EXCEPT !.boolean = TRUE] >>),
        <<3, 4>>),
    ActionCommand(<<"s", "h", "o", "w">>, None, None),
    ActionCommand(<<"f", "l", "i", "p">>, Some(<<
        [Option(<<"s", "i", "d", "e">>, "") EXCEPT !.required = TRUE] >>),
        None)
>>

\* a fifth tree with a value checked by the regex parser: the option cut
\* accepts what the sticky RegExp /x/y matches
Reel == <<
    SubCommand(<<"r", "e", "e", "l">>, Some(<<
        [Option(<<"c", "u", "t">>, "c") EXCEPT !.parser = RegexParser(StickyX)] >>),
        <<2>>),
    ActionCommand(<<"p", "l", "a", "y">>, None, Some(<<
        [Parameter(<<"t", "a", "k", "e">>) EXCEPT !.optional = TRUE] >>))
>>

Configs == {"forest", "lab", "kit", "deck", "reel"}

\* this.config as a tree: node id -> node
Tree(c) ==
    IF c = "forest" THEN Forest ELSE IF c = "lab" THEN Lab
    ELSE IF c = "kit" THEN Kit ELSE IF c = "deck" THEN Deck ELSE Reel

\* the argument strings tried against each tree
Tokens(c) ==
    IF c = "forest"
    THEN {<<"a", "d", "d">>, <<"t", "r", "e", "e">>, <<"m", "o", "v", "e">>, <<"a", "n", "i", "m", "a", "l">>, <<"f", "o", "o">>, <<"4">>, <<"o", "a", "k">>,
          <<"-", "s">>, <<"-", "t">>, <<"-", "h">>, <<"-", "f">>, <<"-", "-", "d", "r", "y", "-", "r", "u", "n">>}
    ELSE IF c = "lab"
    THEN {<<"r", "u", "n">>, <<"p", "u", "t">>, <<"o", "u", "t">>, <<"f", "m", "t">>, <<"l", "o", "g">>, <<"x">>, <<"4">>,
          <<"-", "l">>, <<"-", "-", "l", "e", "v", "e", "l">>, <<"-", "g">>, <<"-", "e">>, <<"-", "-", "t", "o", "-", "s", "t", "r", "i", "n", "g">>}
    ELSE IF c = "kit"
    THEN {<<"g", "e", "t">>, <<"x">>, <<"4">>, <<"-", "d">>, <<"-", "-", "m", "a", "r", "k">>,
          <<"-", "-">>, <<"-">>, <<"-", "d", "x">>}
    ELSE IF c = "deck"
    THEN {<<"c", "a", "r", "d">>, <<"s", "h", "o", "w">>, <<"f", "l", "i", "p">>, <<"x">>,
          <<"-", "t">>, <<"-", "q">>}
    ELSE {<<"p", "l", "a", "y">>, <<"x">>, <<"-", "c">>}

\* the scenarios of the README and the example, and others longer than MaxArgs
Scenarios(c) ==
    IF c = "forest"
    THEN {<<<<"a", "d", "d">>, <<"-", "s">>, <<"4">>, <<"t", "r", "e", "e">>, <<"-", "t">>, <<"o", "a", "k">>>>,
          <<<<"a", "d", "d">>, <<"-", "-", "s", "e", "c", "t", "o", "r", "-", "i", "d">>, <<"4">>, <<"t", "r", "e", "e">>, <<"-", "-", "c", "o", "u", "n", "t">>, <<"1", "0">>>>,
          <<<<"m", "o", "v", "e">>, <<"-", "a">>, <<"f", "o", "o">>, <<"4">>, <<"4">>>>}
    ELSE IF c = "lab"
    THEN {<<<<"-", "l">>, <<"4">>, <<"r", "u", "n">>, <<"-", "-", "l", "e", "v", "e", "l">>, <<"x">>, <<"x">>>>,
          <<<<"-", "-", "l", "e", "v", "e", "l">>, <<"4">>, <<"p", "u", "t">>, <<"-", "g">>, <<"x">>, <<"x">>, <<"-", "g">>, <<"4">>, <<"4">>>>,
          <<<<"p", "u", "t">>, <<"x">>, <<"-", "g">>, <<"x">>, <<"4">>>>,
          <<<<"r", "u", "n">>, <<"x">>, <<"4">>, <<"-", "l">>, <<"x">>>>}
    ELSE IF c = "kit"
    THEN {<<<<"-", "-", "m", "a", "r", "k">>, <<"x">>, <<"-", "-", "m", "a", "r", "k">>, <<"4">>, <<"g", "e", "t">>, <<"x">>, <<"4">>>>}
    ELSE IF c = "deck"
    THEN {<<<<"-", "t">>, <<"x">>, <<"c", "a", "r", "d">>, <<"f", "l", "i", "p">>, <<"-", "-", "s", "i", "d", "e">>, <<"x">>>>}
    ELSE {<<<<"-", "c">>, <<"x">>, <<"p", "l", "a", "y">>, <<"x">>>>}

\* every argument list a parse is started with
ArgLists(c) == UNION {[1..n -> Tokens(c)] : n \in 0..MaxArgs} \cup Scenarios(c)

-----------------------------------------------------------------------------
(* Helpers of the resolver *)

\* the node object behind a node id of the current tree
Node(n) == Tree(config)[n]

\* obj[key] = value on a plain object (a map from own keys to values)
Put(obj, key, value) == [k \in DOMAIN obj \cup {key} |-> IF k = key THEN value ELSE obj[k]]

\* the properties every plain object inherits from Object.prototype
ObjectPrototypeKeys ==
    {<<"c", "o", "n", "s", "t", "r", "u", "c", "t", "o", "r">>,
     <<"t", "o", "S", "t", "r", "i", "n", "g">>,
     <<"t", "o", "L", "o", "c", "a", "l", "e", "S", "t", "r", "i", "n", "g">>,
     <<"v", "a", "l", "u", "e", "O", "f">>,
     <<"h", "a", "s", "O", "w", "n", "P", "r", "o", "p", "e", "r", "t", "y">>,
     <<"i", "s", "P", "r", "o", "t", "o", "t", "y", "p", "e", "O", "f">>,
     <<"p", "r", "o", "p", "e", "r", "t", "y", "I", "s", "E", "n", "u", "m", "e", "r", "a", "b", "l", "e">>,
     <<"_", "_", "p", "r", "o", "t", "o", "_", "_">>}

\* key in obj: own or inherited
In(key, obj) == key \in DOMAIN obj \/ key \in ObjectPrototypeKeys

\* the truthiness of an optional string field: undefined and "" are falsy
Truthy(field) == field # None /\ field[1] # <<>>

\* command.options as an array ([] when the field is undefined: every use is
\* guarded by `if (command.options)` or `path[i].options &&`)
OptionsOf(n) == IF Node(n).options = None THEN <<>> ELSE Node(n).options[1]

\* cmd.parameters as an array ([] when the field is undefined)
ParametersOf(n) == IF Node(n).parameters = None THEN <<>> ELSE Node(n).parameters[1]

\* an option object is identified by its declaring node and its position there
OptionAt(ref) == OptionsOf(ref.node)[ref.index]

RECURSIVE PrimeOptionsNoBoolean(_, _, _)
\* the priming loop without its last branch: boolean options are not set to false
PrimeOptionsNoBoolean(opts, k, obj) ==
    IF k > Len(opts) THEN obj
    ELSE LET option == opts[k]
         IN  PrimeOptionsNoBoolean(opts, k + 1,
                 IF Truthy(option.default)
                 THEN Put(obj, option.name, ParseOrRaw(option, option.default[1]))
                 ELSE IF option.repeatable
                 THEN Put(obj, option.name, Arr(<<>>))
                 ELSE obj)

RECURSIVE PrimeOptions(_, _, _)
\* the loop over command.options: opts[k..] applied to the options object obj
PrimeOptions(opts, k, obj) ==
    IF k > Len(opts) THEN obj
    ELSE LET option == opts[k]
         IN  PrimeOptions(opts, k + 1,
                 IF Truthy(option.default)
                 THEN Put(obj, option.name, ParseOrRaw(option, option.default[1]))
                 ELSE IF option.repeatable
                 THEN Put(obj, option.name, Arr(<<>>))
                 ELSE IF option.boolean /\ ~option.handler
                 THEN Put(obj, option.name, Bool(FALSE))
                 ELSE obj)

\* the initial value of one slot of the parameters array
PrimeParameter(parameter) ==
    IF Truthy(parameter.default) THEN ParseOrRaw(parameter, parameter.default[1])
    ELSE IF parameter.repeatable THEN Arr(<<>>)
    ELSE IF parameter.optional THEN Undefined
    ELSE Null

\* the parameters array after priming: empty unless the command has a handler
PrimeParameters(n) ==
    IF Node(n).handler
    THEN [k \in 1..Len(ParametersOf(n)) |-> PrimeParameter(ParametersOf(n)[k])]
    ELSE <<>>

\* opt => opt.name == name, or opt => opt.symbol == arg[1]
Matches(option, by, key) == IF by = "name" THEN option.name = key ELSE option.symbol = key

\* array.find over a node's options: the first matching position, 0 for undefined
Find(opts, by, key) ==
    IF \E k \in 1..Len(opts) : Matches(opts[k], by, key)
    THEN CHOOSE k \in 1..Len(opts) :
             /\ Matches(opts[k], by, key)
             /\ \A m \in 1..(k - 1) : ~Matches(opts[m], by, key)
    ELSE 0

\* the scan that looks at the current node only
ScanCurrentOnly(p, j, by, key) ==
    IF j >= 0 /\ Find(OptionsOf(At(p, j)), by, key) > 0
    THEN [node |-> At(p, j), index |-> Find(OptionsOf(At(p, j)), by, key)]
    ELSE Undefined

\* the scan started at the root: the outermost declaration is found first
ScanPathFromRoot(p, j, by, key) ==
    LET hits == {k \in 0..j : Find(OptionsOf(At(p, k)), by, key) > 0}
        k == CHOOSE m \in hits : \A n \in hits : m <= n
    IN  IF hits = {} THEN Undefined
        ELSE [node |-> At(p, k), index |-> Find(OptionsOf(At(p, k)), by, key)]

RECURSIVE ScanPath(_, _, _, _)
\* for (let i = path.length - 1; (i >= 0) && (option === undefined); i -= 1)
ScanPath(p, j, by, key) ==
    IF j < 0 THEN Undefined
    ELSE IF Find(OptionsOf(At(p, j)), by, key) > 0
         THEN [node |-> At(p, j), index |-> Find(OptionsOf(At(p, j)), by, key)]
         ELSE ScanPath(p, j - 1, by, key)

\* a two-character argument is always looked up by symbol, the bare "--" included
FindOptionByLength(p, arg) ==
    IF At(arg, 1) = "-" /\ Len(arg) > 2
    THEN ScanPath(p, Len(p) - 1, "name", toCamel(Slice(arg, 2)))
    ELSE ScanPath(p, Len(p) - 1, "symbol", At(arg, 1))

\* the option definition a dash argument resolves to, Undefined when none
FindOption(p, arg) ==
    IF At(arg, 1) = "-"
    THEN ScanPath(p, Len(p) - 1, "name", toCamel(Slice(arg, 2)))
    ELSE ScanPath(p, Len(p) - 1, "symbol", At(arg, 1))

\* the last child of that name is taken instead of the first
FindCommandLast(n, arg) ==
    LET children == Node(n).commands[1]
    IN  IF \E k \in 1..Len(children) : Node(children[k]).name = toCamel(arg)
        THEN children[CHOOSE k \in 1..Len(children) :
                 /\ Node(children[k]).name = toCamel(arg)
                 /\ \A m \in (k + 1)..Len(children) : Node(children[m]).name # toCamel(arg)]
        ELSE 0

\* commands.find(x => x.name == toCamel(arg)): the child's node id, 0 for undefined
FindCommand(n, arg) ==
    LET children == Node(n).commands[1]
    IN  IF \E k \in 1..Len(children) : Node(children[k]).name = toCamel(arg)
        THEN children[CHOOSE k \in 1..Len(children) :
                 /\ Node(children[k]).name = toCamel(arg)
                 /\ \A m \in 1..(k - 1) : Node(children[m]).name # toCamel(arg)]
        ELSE 0

\* parameters.lastIndexOf(null) in the place of indexOf
LastIndexOfNull(params) ==
    IF \E k \in 1..Len(params) : params[k] = Null
    THEN (CHOOSE k \in 1..Len(params) :
              params[k] = Null /\ \A m \in (k + 1)..Len(params) : params[m] # Null) - 1
    ELSE -1

\* parameters.indexOf(null), 0-based, -1 when absent
IndexOfNull(params) ==
    IF \E k \in 1..Len(params) : params[k] = Null
    THEN (CHOOSE k \in 1..Len(params) :
              params[k] = Null /\ \A m \in 1..(k - 1) : params[m] # Null) - 1
    ELSE -1

\* paramMissing of the end-of-input check
ParamMissing(n, params) ==
    LET last == Len(ParametersOf(n)) - 1
    IN  /\ Len(ParametersOf(n)) > 0
        /\ \/ IndexOfNull(params) >= 0
           \/ /\ ParametersOf(n)[last + 1].repeatable
              /\ ~ParametersOf(n)[last + 1].optional
              /\ Len(params[last + 1].v) = 0

\* the parameter the missing-parameter error names
MissingParameterName(n, params) ==
    LET last == Len(ParametersOf(n)) - 1
        k == IF IndexOfNull(params) >= 0 THEN IndexOfNull(params) ELSE last
    IN  fromCamel(ParametersOf(n)[k + 1].name)

\* the condition under which a required option is reported missing
OptionMissing(option, obj) ==
    option.required /\ (~In(option.name, obj) \/ (option.repeatable /\ Len(obj[option.name].v) = 0))

\* the options of the nodes of p in the order the final check visits them
RequiredScan(p) ==
    LET refs(n) == [k \in 1..Len(OptionsOf(n)) |-> [node |-> n, index |-> k]]
        F[j \in 0..Len(p)] == IF j = 0 THEN <<>> ELSE F[j - 1] \o refs(p[j])
    IN  F[Len(p)]

\* the first required option the final check finds missing, Undefined when none
FirstMissingOption(p, obj) ==
    LET scan == RequiredScan(p)
    IN  IF \E k \in 1..Len(scan) : OptionMissing(OptionAt(scan[k]), obj)
        THEN scan[CHOOSE k \in 1..Len(scan) :
                 /\ OptionMissing(OptionAt(scan[k]), obj)
                 /\ \A m \in 1..(k - 1) : ~OptionMissing(OptionAt(scan[m]), obj)]
        ELSE Undefined

\* only the handlers of boolean options are honoured
HasHandlerBooleanOnly(option) == option.handler /\ option.boolean

\* if (option.handler): the option ends the parse
HasHandler(option) == option.handler

\* the options object handed over before the positional values
LeafArgumentsOptionsFirst(params, obj, p) == <<obj>> \o params \o <<p>>

\* cmd.handler(...parameters, options, path)
LeafArguments(params, obj, p) == params \o <<obj, p>>

\* new CliParseError(path, message): the message is a sequence of text pieces,
\* empty when no message is given
CliParseError(p, message) == [path |-> p, message |-> message]

\* handler(...arguments) as observed from outside
Call(kind, node, index, arguments) ==
    [kind |-> kind, node |-> node, index |-> index, arguments |-> arguments]

-----------------------------------------------------------------------------
(* Help renderer.  The rendered text is kept as its parts (the usage line,  *)
(* the parameter and command lists, the option groups in output order);     *)
(* help texts, padding and line breaks are left out.                        *)

\* the signature of one option
helpOption(option) ==
    LET base == (IF option.symbol # "" THEN <<"-", option.symbol, ",", " ">> ELSE <<>>)
                \o <<"-", "-">> \o fromCamel(option.name)
        value == <<"<">> \o (IF Truthy(option.valueName) THEN option.valueName[1]
                                                         ELSE <<"v", "a", "l", "u", "e">>)
                 \o (IF Truthy(option.default) THEN <<"=">> \o option.default[1] ELSE <<>>)
                 \o <<">">> \o (IF option.repeatable THEN <<",", " ", "+">> ELSE <<>>)
    IN  IF option.boolean THEN base ELSE base \o <<" ">> \o value

\* the signature of one parameter
helpParameter(parameter) ==
    LET value == fromCamel(parameter.name)
                 \o (IF Truthy(parameter.default) THEN <<"=">> \o parameter.default[1] ELSE <<>>)
    IN  (IF parameter.optional \/ Truthy(parameter.default)
         THEN <<"[">> \o value \o <<"]">> ELSE <<"<">> \o value \o <<">">>)
        \o (IF parameter.repeatable THEN <<"+">> ELSE <<>>)

\* the name of the group of non-required options of path[k] (0-based k)
GroupName(p, k) ==
    IF k = Len(p) - 1 THEN <<"Options">>
    ELSE IF k = 0 THEN <<"Global options">>
    ELSE <<"Inherited options (">> \o fromCamel(Node(At(p, k)).name) \o <<")">>

\* the signatures of the options of node n that are, or are not, required
PairsOf(n, required) ==
    LET opts == OptionsOf(n)
        F[k \in 0..Len(opts)] ==
            IF k = 0 THEN <<>>
            ELSE IF opts[k].required = required THEN Append(F[k - 1], helpOption(opts[k]))
            ELSE F[k - 1]
    IN  F[Len(opts)]

RECURSIVE helpGroups(_, _, _)
\* the loop of helpOptions from path[k] down to path[0]; groups[1] is "Required options"
helpGroups(p, k, groups) ==
    IF k < 0 THEN groups
    ELSE LET n == At(p, k)
             required == [groups[1] EXCEPT !.pairs = @ \o PairsOf(n, TRUE)]
             rest == SubSeq(groups, 2, Len(groups))
             pairs == PairsOf(n, FALSE)
         IN  helpGroups(p, k - 1,
                 IF Len(pairs) > 0
                 THEN <<required>> \o rest \o <<[name |-> GroupName(p, k), pairs |-> pairs]>>
                 ELSE <<required>> \o rest)

\* the group of required options is kept when it has no entries
helpOptionsKeepEmpty(p) ==
    helpGroups(p, Len(p) - 1, <<[name |-> <<"Required options">>, pairs |-> <<>>]>>)

\* the option groups of the help of a path, in output order
helpOptions(p) ==
    LET groups == helpGroups(p, Len(p) - 1, <<[name |-> <<"Required options">>, pairs |-> <<>>]>>)
    IN  IF Len(groups[1].pairs) = 0 THEN SubSeq(groups, 2, Len(groups)) ELSE groups

\* the signature of a command in a usage line or a command list
helpCommand(n) ==
    IF Node(n).handler
    THEN IF Node(n).parameters # None
         THEN <<fromCamel(Node(n).name)>>
              \o [k \in 1..Len(ParametersOf(n)) |-> helpParameter(ParametersOf(n)[k])]
         ELSE <<fromCamel(Node(n).name)>>
    ELSE <<fromCamel(Node(n).name), <<"(", ".", ".", ".", ")">> >>

\* the help of a path
help(p) ==
    LET n == At(p, Len(p) - 1)
    IN  [usage |-> [k \in 1..(Len(p) - 1) |-> fromCamel(Node(p[k]).name)] \o helpCommand(n),
         parameters |-> IF Node(n).parameters # None
                        THEN [k \in 1..Len(ParametersOf(n)) |-> fromCamel(ParametersOf(n)[k].name)]
                        ELSE <<>>,
         commands |-> IF Node(n).commands # None
                      THEN [k \in 1..Len(Node(n).commands[1]) |-> helpCommand(Node(n).commands[1][k])]
                      ELSE <<>>,
         options |-> helpOptions(p)]

-----------------------------------------------------------------------------
(* Entry points and the resolver *)

\* the entry points a caller may use
Modes == {"run", "runNoWrapper"}

\* CliMan.run(args) / CliMan.runNoWrapper(args): parserRun(args, this.config, [], {})
Run ==
    /\ pc = "idle"
    /\ \E a \in ArgLists(config), m \in Modes :
        /\ mode' = m
        /\ args' = a
    /\ pc' = "prime"
    /\ command' = 1
    /\ path' = <<>>
    /\ options' = <<>>
    /\ parameters' = <<>>
    /\ currentParameterIndex' = 0
    /\ i' = 0
    /\ calls' = <<>>
    /\ thrown' = None
    /\ out' = <<>>
    /\ UNCHANGED <<config, lastIndex>>

\* the path is started afresh at every node instead of being extended
PrimeFreshPath ==
    /\ pc = "prime"
    /\ pc' = "loop"
    /\ path' = <<command>>
    /\ options' = PrimeOptions(OptionsOf(command), 1, options)
    /\ parameters' = PrimeParameters(command)
    /\ currentParameterIndex' = 0
    /\ i' = 0
    /\ UNCHANGED <<config, lastIndex, mode, args, command, calls, thrown, out>>

\* parserRun up to the loop: push the command, prime options and parameters
\* (no tree here gives a default to a value the regex parser checks, so the
\* parsing of the defaults leaves lastIndex as it is)
Prime ==
    /\ pc = "prime"
    /\ pc' = "loop"
    /\ path' = Append(path, command)
    /\ options' = PrimeOptions(OptionsOf(command), 1, options)
    /\ parameters' = PrimeParameters(command)
    /\ currentParameterIndex' = 0
    /\ i' = 0
    /\ UNCHANGED <<config, lastIndex, mode, args, command, calls, thrown, out>>

\* throw new CliParseError(path, message), the loop index left at j
Throw(message, j) ==
    /\ pc' = "thrown"
    /\ thrown' = Some(CliParseError(path, message))
    /\ i' = j
    /\ UNCHANGED <<config, mode, args, command, path, options, parameters,
                   currentParameterIndex, calls, out>>

\* the handler is called but the return is missing: the loop goes on
InvokeWithoutReturn(call, j) ==
    /\ pc' = "loop"
    /\ calls' = Append(calls, call)
    /\ i' = j + 1
    /\ UNCHANGED <<config, mode, args, command, path, options, parameters,
                   currentParameterIndex, thrown, out>>

\* return handler(...): the handler is called and parserRun returns
Invoke(call, j) ==
    /\ pc' = "returned"
    /\ calls' = Append(calls, call)
    /\ i' = j
    /\ UNCHANGED <<config, mode, args, command, path, options, parameters,
                   currentParameterIndex, thrown, out>>

\* the loop index is not advanced
ContinueInPlace(obj, params, cursor, j) ==
    /\ pc' = "loop"
    /\ options' = obj
    /\ parameters' = params
    /\ currentParameterIndex' = cursor
    /\ i' = i
    /\ UNCHANGED <<config, mode, args, command, path, calls, thrown, out>>

\* the loop goes on to the next argument with the options object obj
Continue(obj, params, cursor, j) ==
    /\ pc' = "loop"
    /\ options' = obj
    /\ parameters' = params
    /\ currentParameterIndex' = cursor
    /\ i' = j
    /\ UNCHANGED <<config, mode, args, command, path, calls, thrown, out>>

\* return parserRun(args.slice(i + 1), next, path, options)
Descend(next) ==
    /\ pc' = "prime"
    /\ args' = Slice(args, i + 1)
    /\ command' = next
    /\ UNCHANGED <<config, mode, path, options, parameters, currentParameterIndex,
                   i, calls, thrown, out>>

\* a next argument that starts with a dash is not taken as the value
OptionArgumentDashGuard(arg) ==
    IF At(arg, 1) # "-" /\ Len(arg) # 2
    THEN Throw(<<"invalid argument \"">> \o arg \o <<"\"">>, i)
    ELSE LET ref == FindOption(path, arg)
         IN  IF ref = Undefined
             THEN Throw(<<"unknown option \"">> \o arg \o <<"\"">>, i)
             ELSE LET option == OptionAt(ref)
                  IN  IF option.boolean
                      THEN IF HasHandler(option)
                           THEN Invoke(Call("option", ref.node, ref.index, <<path>>), i)
                           ELSE Continue(Put(options, option.name, Bool(TRUE)),
                                         parameters, currentParameterIndex, i + 1)
                      ELSE IF i + 1 >= Len(args) \/ At(At(args, i + 1), 0) = "-"
                      THEN Throw(<<"option \"">> \o arg \o <<"\" requires a value">>, i + 1)
                      ELSE LET value == ParseOrRaw(option, At(args, i + 1))
                           IN  IF value = Null
                               THEN Throw(<<"invalid value \"">> \o At(args, i + 1)
                                          \o <<"\" for option \"">> \o arg \o <<"\"">>, i + 1)
                               ELSE IF HasHandler(option)
                               THEN Invoke(Call("option", ref.node, ref.index, <<value, path>>), i + 1)
                               ELSE IF option.repeatable
                               THEN Continue(Put(options, option.name,
                                                 Arr(Append(options[option.name].v, value))),
                                             parameters, currentParameterIndex, i + 2)
                               ELSE Continue(Put(options, option.name, value),
                                             parameters, currentParameterIndex, i + 2)

\* the loop body when the argument starts with a dash
OptionArgument(arg) ==
    IF At(arg, 1) # "-" /\ Len(arg) # 2
    THEN Throw(<<"invalid argument \"">> \o arg \o <<"\"">>, i)
    ELSE LET ref == FindOption(path, arg)
         IN  IF ref = Undefined
             THEN Throw(<<"unknown option \"">> \o arg \o <<"\"">>, i)
             ELSE LET option == OptionAt(ref)
                  IN  IF option.boolean
                      THEN IF HasHandler(option)
                           THEN Invoke(Call("option", ref.node, ref.index, <<path>>), i)
                           ELSE Continue(Put(options, option.name, Bool(TRUE)),
                                         parameters, currentParameterIndex, i + 1)
                      ELSE IF i + 1 >= Len(args)
                      THEN Throw(<<"option \"">> \o arg \o <<"\" requires a value">>, i + 1)
                      ELSE LET value == ParseOrRaw(option, At(args, i + 1))
                           IN  IF value = Null
                               THEN Throw(<<"invalid value \"">> \o At(args, i + 1)
                                          \o <<"\" for option \"">> \o arg \o <<"\"">>, i + 1)
                               ELSE IF HasHandler(option)
                               THEN Invoke(Call("option", ref.node, ref.index, <<value, path>>), i + 1)
                               ELSE IF option.repeatable
                               THEN Continue(Put(options, option.name,
                                                 Arr(Append(options[option.name].v, value))),
                                             parameters, currentParameterIndex, i + 2)
                               ELSE Continue(Put(options, option.name, value),
                                             parameters, currentParameterIndex, i + 2)

\* the unknown command reported without a message
CommandArgumentNoMessage(arg) ==
    LET next == FindCommand(command, arg)
    IN  IF next = 0
        THEN Throw(<<>>, i)
        ELSE Descend(next)

\* the loop body when the argument is a command name
CommandArgument(arg) ==
    LET next == FindCommand(command, arg)
    IN  IF next = 0
        THEN Throw(<<"unrecognized command \"">> \o arg \o <<"\"">>, i)
        ELSE Descend(next)

\* the cursor is never moved: every value goes to the first slot
ParameterArgumentInPlace(arg) ==
    IF Node(command).parameters = None \/ currentParameterIndex >= Len(ParametersOf(command))
    THEN Throw(<<"unexpected Parameter \"">> \o arg \o <<"\"">>, i)
    ELSE LET spec == At(ParametersOf(command), currentParameterIndex)
             value == ParseOrRaw(spec, arg)
         IN  IF value = Null
             THEN Throw(<<"invalid value \"">> \o arg \o <<"\" for Parameter \"">>
                        \o fromCamel(spec.name) \o <<"\"">>, i)
             ELSE IF spec.repeatable
             THEN Continue(options,
                           [parameters EXCEPT ![currentParameterIndex + 1] = Arr(Append(@.v, value))],
                           currentParameterIndex, i + 1)
             ELSE Continue(options,
                           [parameters EXCEPT ![currentParameterIndex + 1] = value],
                           currentParameterIndex, i + 1)

\* the cursor moved on after every value, those of a repeatable slot included
ParameterArgumentAdvancing(arg) ==
    IF Node(command).parameters = None \/ currentParameterIndex >= Len(ParametersOf(command))
    THEN Throw(<<"unexpected Parameter \"">> \o arg \o <<"\"">>, i)
    ELSE LET spec == At(ParametersOf(command), currentParameterIndex)
             value == ParseOrRaw(spec, arg)
         IN  IF value = Null
             THEN Throw(<<"invalid value \"">> \o arg \o <<"\" for Parameter \"">>
                        \o fromCamel(spec.name) \o <<"\"">>, i)
             ELSE IF spec.repeatable
             THEN Continue(options,
                           [parameters EXCEPT ![currentParameterIndex + 1] = Arr(Append(@.v, value))],
                           currentParameterIndex + 1, i + 1)
             ELSE Continue(options,
                           [parameters EXCEPT ![currentParameterIndex + 1] = value],
                           currentParameterIndex + 1, i + 1)

\* the loop body when the argument is a parameter value
ParameterArgument(arg) ==
    IF Node(command).parameters = None \/ currentParameterIndex >= Len(ParametersOf(command))
    THEN Throw(<<"unexpected Parameter \"">> \o arg \o <<"\"">>, i)
    ELSE LET spec == At(ParametersOf(command), currentParameterIndex)
             value == ParseOrRaw(spec, arg)
         IN  IF value = Null
             THEN Throw(<<"invalid value \"">> \o arg \o <<"\" for Parameter \"">>
                        \o fromCamel(spec.name) \o <<"\"">>, i)
             ELSE IF spec.repeatable
             THEN Continue(options,
                           [parameters EXCEPT ![currentParameterIndex + 1] = Arr(Append(@.v, value))],
                           currentParameterIndex, i + 1)
             ELSE Continue(options,
                           [parameters EXCEPT ![currentParameterIndex + 1] = value],
                           currentParameterIndex + 1, i + 1)

\* the parser this iteration of the loop calls and the string it is called
\* with, None when the iteration calls no parser
ParserCall ==
    LET arg == At(args, i)
    IN  IF At(arg, 0) = "-"
        THEN IF At(arg, 1) # "-" /\ Len(arg) # 2 THEN None
             ELSE LET ref == FindOption(path, arg)
                  IN  IF ref = Undefined THEN None
                      ELSE IF OptionAt(ref).boolean \/ i + 1 >= Len(args) THEN None
                      ELSE IF OptionAt(ref).parser.fn = "none" THEN None
                      ELSE Some([parser |-> OptionAt(ref).parser, raw |-> At(args, i + 1)])
        ELSE IF Node(command).commands # None THEN None
        ELSE IF Node(command).parameters = None
                \/ currentParameterIndex >= Len(ParametersOf(command)) THEN None
        ELSE LET spec == At(ParametersOf(command), currentParameterIndex)
             IN  IF spec.parser.fn = "none" THEN None
                 ELSE Some([parser |-> spec.parser, raw |-> arg])

\* one iteration of the loop over the arguments; a call of the regex parser
\* leaves its RegExp object's lastIndex where the match ended
LoopBody ==
    /\ pc = "loop"
    /\ i < Len(args)
    /\ LET arg == At(args, i)
       IN  IF At(arg, 0) = "-" THEN OptionArgument(arg)
           ELSE IF Node(command).commands # None THEN CommandArgument(arg)
           ELSE ParameterArgument(arg)
    /\ lastIndex' = IF ParserCall # None /\ ParserCall[1].parser.fn = "regex"
                    THEN LastIndexAfter(ParserCall[1].parser.re, ParserCall[1].raw)
                    ELSE lastIndex

\* after the loop: the final checks and the handler call, or the empty error
EndOfInput ==
    /\ pc = "loop"
    /\ i >= Len(args)
    /\ IF Node(command).handler
       THEN IF ParamMissing(command, parameters)
            THEN Throw(<<"no value provided for required Parameter \"">>
                       \o MissingParameterName(command, parameters) \o <<"\"">>, i)
            ELSE IF FirstMissingOption(path, options) # Undefined
            THEN Throw(<<"missing required option \"--">>
                       \o fromCamel(OptionAt(FirstMissingOption(path, options)).name)
                       \o <<"\"">>, i)
            ELSE Invoke(Call("command", command, 0, LeafArguments(parameters, options, path)), i)
       ELSE Throw(<<>>, i)
    /\ UNCHANGED lastIndex

\* parserRun returned: run / runNoWrapper return to the caller
Return ==
    /\ pc = "returned"
    /\ pc' = "done"
    /\ UNCHANGED <<config, lastIndex, mode, args, command, path, options, parameters,
                   currentParameterIndex, i, calls, thrown, out>>

\* the catch block without the test of e.message: the error line is always written
CatchAlwaysErrorLine ==
    /\ pc = "thrown"
    /\ mode = "run"
    /\ pc' = "done"
    /\ thrown' = None
    /\ out' = out
              \o <<[stream |-> "error",
                    text |-> <<"error: ">> \o thrown[1].message \o <<"\n">>]>>
              \o <<[stream |-> "info", text |-> help(thrown[1].path)]>>
    /\ UNCHANGED <<config, lastIndex, mode, args, command, path, options, parameters,
                   currentParameterIndex, i, calls>>

\* the catch block of CliMan.run: the error line when there is a message, then the help
Catch ==
    /\ pc = "thrown"
    /\ mode = "run"
    /\ pc' = "done"
    /\ thrown' = None
    /\ out' = out
              \o (IF thrown[1].message # <<>>
                  THEN <<[stream |-> "error",
                          text |-> <<"error: ">> \o thrown[1].message \o <<"\n">>]>>
                  ELSE <<>>)
              \o <<[stream |-> "info", text |-> help(thrown[1].path)]>>
    /\ UNCHANGED <<config, lastIndex, mode, args, command, path, options, parameters,
                   currentParameterIndex, i, calls>>

\* CliMan.runNoWrapper has no catch block: the error reaches the caller
Propagate ==
    /\ pc = "thrown"
    /\ mode = "runNoWrapper"
    /\ pc' = "done"
    /\ UNCHANGED <<config, lastIndex, mode, args, command, path, options, parameters,
                   currentParameterIndex, i, calls, thrown, out>>

\* the caller is back in control; the instance keeps only its config, and
\* with it the RegExp object a parser of the tree was built with
Reuse ==
    /\ pc = "done"
    /\ pc' = "idle"
    /\ mode' = "run"
    /\ args' = <<>>
    /\ command' = 0
    /\ path' = <<>>
    /\ options' = <<>>
    /\ parameters' = <<>>
    /\ currentParameterIndex' = 0
    /\ i' = 0
    /\ calls' = <<>>
    /\ thrown' = None
    /\ out' = <<>>
    /\ UNCHANGED <<config, lastIndex>>

-----------------------------------------------------------------------------
\* new CliMan(config): nothing parsed yet
Init ==
    /\ config \in Configs
    /\ lastIndex = 0
    /\ pc = "idle"
    /\ mode = "run"
    /\ args = <<>>
    /\ command = 0
    /\ path = <<>>
    /\ options = <<>>
    /\ parameters = <<>>
    /\ currentParameterIndex = 0
    /\ i = 0
    /\ calls = <<>>
    /\ thrown = None
    /\ out = <<>>

Next ==
    \/ Run
    \/ Prime
    \/ LoopBody
    \/ EndOfInput
    \/ Return
    \/ Catch
    \/ Propagate
    \/ Reuse

Spec == Init /\ [][Next]_vars

-----------------------------------------------------------------------------
(* The name codec on its own: toCamel and fromCamel applied to a name, one  *)
(* after the other.  args holds the name as its only element, mode tells    *)
(* which form the name is given in ("external": hyphenated, toCamel first;  *)
(* "internal": camel case, fromCamel first), out collects the results.      *)

\* the characters the names are made of
Alphabet == {"a", "b", "B", "1", "-"}

\* the names tried: every string over Alphabet of at most MaxWord characters
Words == UNION {[1..n -> Alphabet] : n \in 0..MaxWord}

\* the string the next conversion is applied to
Current == IF out = <<>> THEN args[1] ELSE out[Len(out)]

CodecInit ==
    /\ config = "forest"
    /\ lastIndex = 0
    /\ pc = "codec"
    /\ mode \in {"external", "internal"}
    /\ args \in {<<word>> : word \in Words}
    /\ command = 0
    /\ path = <<>>
    /\ options = <<>>
    /\ parameters = <<>>
    /\ currentParameterIndex = 0
    /\ i = 0
    /\ calls = <<>>
    /\ thrown = None
    /\ out = <<>>

\* toCamel(str)
ApplyToCamel ==
    /\ pc = "codec"
    /\ \/ mode = "external" /\ Len(out) = 0
       \/ mode = "internal" /\ Len(out) = 1
    /\ out' = Append(out, toCamel(Current))
    /\ UNCHANGED <<config, lastIndex, pc, mode, args, command, path, options, parameters,
                   currentParameterIndex, i, calls, thrown>>

\* fromCamel(str)
ApplyFromCamel ==
    /\ pc = "codec"
    /\ \/ mode = "internal" /\ Len(out) = 0
       \/ mode = "external" /\ Len(out) = 1
    /\ out' = Append(out, fromCamel(Current))
    /\ UNCHANGED <<config, lastIndex, pc, mode, args, command, path, options, parameters,
                   currentParameterIndex, i, calls, thrown>>

CodecNext ==
    \/ ApplyToCamel
    \/ ApplyFromCamel

CodecSpec == CodecInit /\ [][CodecNext]_vars

-----------------------------------------------------------------------------
(* The number parser on its own: CliMan.parsers.number applied to a string. *)
(* args holds the string as its only element, out receives the result.      *)

\* the characters the strings are made of
NumberAlphabet == {"4", ".", "-", "x"}

\* the strings tried: every string over NumberAlphabet of at most MaxWord characters
NumberWords == UNION {[1..n -> NumberAlphabet] : n \in 0..MaxWord}

ParserInit ==
    /\ config = "forest"
    /\ lastIndex = 0
    /\ pc = "parser"
    /\ mode = "run"
    /\ args \in {<<word>> : word \in NumberWords}
    /\ command = 0
    /\ path = <<>>
    /\ options = <<>>
    /\ parameters = <<>>
    /\ currentParameterIndex = 0
    /\ i = 0
    /\ calls = <<>>
    /\ thrown = None
    /\ out = <<>>

\* CliMan.parsers.number(value)
ApplyNumber ==
    /\ pc = "parser"
    /\ out = <<>>
    /\ out' = <<ApplyParser(NumberParser, args[1])>>
    /\ UNCHANGED <<config, lastIndex, pc, mode, args, command, path, options, parameters,
                   currentParameterIndex, i, calls, thrown>>

ParserNext == ApplyNumber

ParserSpec == ParserInit /\ [][ParserNext]_vars

-----------------------------------------------------------------------------
(* Vocabulary of the properties *)

IsLeaf(n) == Node(n).handler
IsBranch(n) == ~Node(n).handler

\* the loop has run out of arguments and the final checks are next
AtEndOfInput == pc = "loop" /\ i >= Len(args)

\* the loop is about to dispatch the argument At(args, i)
AtArgument == pc = "loop" /\ i < Len(args)

\* the parse has raised an error (in flight, propagated, or caught and displayed)
Failed == thrown # None \/ out # <<>>

\* the messages by which the error kinds are told apart
MissingParameterMessage(name) ==
    <<"no value provided for required Parameter \"">> \o name \o <<"\"">>
MissingOptionMessage(name) ==
    <<"missing required option \"--">> \o name \o <<"\"">>
UnknownOptionMessage(arg) == <<"unknown option \"">> \o arg \o <<"\"">>

\* a parameter slot (1-based k) that must be filled by a token
ScalarRequired(n, k) ==
    LET spec == ParametersOf(n)[k]
    IN  spec.default = None /\ ~spec.optional /\ ~spec.repeatable

\* the scalar slots of the current Leaf that no token has filled
UnfilledRequired ==
    {k \in 1..Len(ParametersOf(command)) :
        ScalarRequired(command, k) /\ k > currentParameterIndex}

\* the last slot is repeatable, not optional, and has collected nothing
RepeatableEmpty ==
    LET n == Len(ParametersOf(command))
    IN  /\ n > 0
        /\ ParametersOf(command)[n].repeatable
        /\ ~ParametersOf(command)[n].optional
        /\ parameters[n] = Arr(<<>>)

\* the options declared on the nodes of the path, as (node, index) references
DeclaredOnPath ==
    {ref \in [node : {path[k] : k \in 1..Len(path)}, index : 1..8] :
        ref.index <= Len(OptionsOf(ref.node))}

\* the required options on the path that have no value in the options map
Unsupplied ==
    {ref \in DeclaredOnPath :
        /\ OptionAt(ref).required
        /\ \/ OptionAt(ref).name \notin DOMAIN options
           \/ OptionAt(ref).repeatable /\ options[OptionAt(ref).name] = Arr(<<>>)}

\* the slots of the current Leaf that still hold the missing marker
MarkedMissing == {k \in 1..Len(parameters) : parameters[k] = Null}

\* completion validation as section 4.4 states it, over the markers the
\* priming has set: no slot is still marked missing, the last slot is not an
\* empty required collection, and no required option is without a value
ValidationPasses == MarkedMissing = {} /\ ~RepeatableEmpty /\ Unsupplied = {}

\* call is a call of Leaf n's handler with (p1, ..., pn, options, path)
IsLeafCall(call, n) ==
    LET count == Len(ParametersOf(n))
    IN  /\ call.kind = "command"
        /\ call.node = n
        /\ Len(call.arguments) = count + 2
        /\ \A k \in 1..count : call.arguments[k] = parameters[k]
        /\ Len(parameters) = count
        /\ call.arguments[count + 1] = options
        /\ call.arguments[count + 2] = path

-----------------------------------------------------------------------------
-----------------------------------------------------------------------------
-----------------------------------------------------------------------------
(* C3: when the arguments run out at a Leaf whose parameters are complete   *)
(* and some required option of a node on the path has no value (or, being   *)
(* repeatable, an empty collection), the parse fails with the missing-      *)
(* option error naming such an option by its hyphenated name, and no        *)
(* handler is called.                                                       *)
C3_MissingRequiredOption ==
    [][(AtEndOfInput /\ IsLeaf(command) /\ UnfilledRequired = {} /\ ~RepeatableEmpty
            /\ Unsupplied # {})
        => /\ pc' = "thrown"
           /\ calls' = <<>>
           /\ \E ref \in Unsupplied :
                  thrown' = Some(CliParseError(path,
                      MissingOptionMessage(fromCamel(OptionAt(ref).name))))]_vars

-----------------------------------------------------------------------------
(* C4: when the arguments run out at a Leaf and a slot without default,     *)
(* not optional and not repeatable has received no token, the parse fails   *)
(* with the missing-parameter error naming the first such slot in           *)
(* declaration order; when there is none but the last slot is repeatable,   *)
(* not optional and empty, it fails naming that slot.  No handler is        *)
(* called in either case.                                                   *)
C4_MissingParameter ==
    [][(AtEndOfInput /\ IsLeaf(command))
        => LET first == CHOOSE k \in UnfilledRequired : \A m \in UnfilledRequired : k <= m
               last == Len(ParametersOf(command))
               Fails(k) ==
                   /\ pc' = "thrown"
                   /\ calls' = <<>>
                   /\ thrown' = Some(CliParseError(path,
                          MissingParameterMessage(fromCamel(ParametersOf(command)[k].name))))
           IN  /\ UnfilledRequired # {} => Fails(first)
               /\ (UnfilledRequired = {} /\ RepeatableEmpty) => Fails(last)]_vars

\* put: neither key nor val was given, and the error names key
C4_Witness ==
    /\ pc = "thrown"
    /\ config = "lab"
    /\ command = 3
    /\ Cardinality(UnfilledRequired) = 2
    /\ thrown[1].message = MissingParameterMessage(<<"k", "e", "y">>)

-----------------------------------------------------------------------------
(* C5 *)

\* the options map the Leaf handler received
ReceivedOptions == calls[1].arguments[Len(calls[1].arguments) - 1]

LeafHandlerCalled == calls # <<>> /\ calls[1].kind = "command"

-----------------------------------------------------------------------------
(* C6 *)

\* the argument has one of the two shapes that are looked up
LongShape(arg) == At(arg, 0) = "-" /\ At(arg, 1) = "-"
ShortShape(arg) == At(arg, 0) = "-" /\ At(arg, 1) # "-" /\ Len(arg) = 2

\* option o is named by the argument: by long name, or by symbol
NamedBy(o, arg) ==
    \/ LongShape(arg) /\ o.name = toCamel(Slice(arg, 2))
    \/ ShortShape(arg) /\ o.symbol = arg[2]

\* the options on the path the argument names
Declaring(arg) == {ref \in DeclaredOnPath : NamedBy(OptionAt(ref), arg)}

\* the position of node n on the path
Depth(n) == CHOOSE k \in 1..Len(path) : path[k] = n

\* among them, the one declared nearest the current node (first in its node)
Nearest(arg) ==
    CHOOSE ref \in Declaring(arg) :
        \A o \in Declaring(arg) :
            \/ Depth(o.node) < Depth(ref.node)
            \/ o.node = ref.node /\ ref.index <= o.index

\* what the step does when the OptionSpec behind ref is the one applied
Applied(ref) ==
    LET o == OptionAt(ref)
        raw == At(args, i + 1)
        value == IF o.parser = NoParser THEN Str(raw) ELSE ApplyParser(o.parser, raw)
    IN  IF o.boolean
        THEN IF o.handler
             THEN calls' = <<Call("option", ref.node, ref.index, <<path>>)>> /\ thrown' = None
             ELSE /\ options' = Put(options, o.name, Bool(TRUE))
                  /\ i' = i + 1
                  /\ pc' = "loop"
        ELSE IF i + 1 >= Len(args) \/ value = Null
             THEN pc' = "thrown" /\ options' = options /\ calls' = <<>>
             ELSE IF o.handler
             THEN calls' = <<Call("option", ref.node, ref.index, <<value, path>>)>>
                  /\ thrown' = None
             ELSE /\ options' = Put(options, o.name,
                                    IF o.repeatable THEN Arr(Append(options[o.name].v, value))
                                                    ELSE value)
                  /\ i' = i + 2
                  /\ pc' = "loop"

(* C6: an argument that names an option declared on the path is handled by  *)
(* the OptionSpec of the declaring node nearest the current node: that      *)
(* spec's shape, parser, handler and repeatable flag decide the step.       *)
C6_NearestScopeWins ==
    [][(AtArgument /\ Declaring(At(args, i)) # {}) => Applied(Nearest(At(args, i)))]_vars

\* run -l x: at run the flag -l is run's boolean level, not the root's valued
\* level; it is set to true and x is left to be read as a parameter
C6_Witness ==
    /\ pc = "loop"
    /\ config = "lab"
    /\ path = <<1, 2>>
    /\ args = <<<<"-", "l">>, <<"x">>>>
    /\ i = 1
    /\ Cardinality(Declaring(<<"-", "l">>)) = 2
    /\ options[<<"l", "e", "v", "e", "l">>] = Bool(TRUE)

-----------------------------------------------------------------------------
(* C7 *)

\* some node of the tree, on the path or not, declares an option the argument names
DeclaredInTree(arg) ==
    \E n \in 1..Len(Tree(config)) :
        \E k \in 1..Len(OptionsOf(n)) : NamedBy(OptionsOf(n)[k], arg)

(* C7: a long- or short-option argument resolves exactly when a node on the *)
(* current path declares the option it names: if none does (the option may  *)
(* be declared on a descendant not yet entered or in a sibling subtree) the *)
(* parse fails with the unknown-option error; if one does, that error is    *)
(* not raised.                                                              *)
C7_OptionsVisibleOnPath ==
    [][(AtArgument /\ (LongShape(At(args, i)) \/ ShortShape(At(args, i))))
        => /\ Declaring(At(args, i)) = {}
                => /\ pc' = "thrown"
                   /\ calls' = <<>>
                   /\ thrown' = Some(CliParseError(path, UnknownOptionMessage(At(args, i))))
           /\ Declaring(At(args, i)) # {}
                => ~(/\ thrown' # None
                     /\ thrown'[1].message = UnknownOptionMessage(At(args, i)))]_vars

\* move -t: -t is declared by tree, a sibling of move, and is unknown at move
C7_Witness ==
    /\ pc = "thrown"
    /\ config = "forest"
    /\ path = <<1, 5>>
    /\ i < Len(args)
    /\ At(args, i) = <<"-", "t">>
    /\ DeclaredInTree(At(args, i))
    /\ Declaring(At(args, i)) = {}
    /\ thrown[1].message = UnknownOptionMessage(<<"-", "t">>)

-----------------------------------------------------------------------------
(* C8 *)

\* the loop is at an argument that matches an option with a handler, and for
\* a valued option the next argument is a value its parser accepts
AtHandlerOption ==
    /\ AtArgument
    /\ LongShape(At(args, i)) \/ ShortShape(At(args, i))
    /\ Declaring(At(args, i)) # {}
    /\ LET option == OptionAt(Nearest(At(args, i)))
       IN  /\ option.handler
           /\ ~option.boolean =>
                /\ i + 1 < Len(args)
                /\ ParseOrRaw(option, At(args, i + 1)) # Null

\* what the handler of the option matched at At(args, i) is to be called with
HandlerArguments ==
    LET option == OptionAt(Nearest(At(args, i)))
    IN  IF option.boolean THEN <<path>>
        ELSE <<ParseOrRaw(option, At(args, i + 1)), path>>

\* an option handler has been called
OptionHandlerCalled == calls # <<>> /\ calls[1].kind = "option"

(* C8: when the argument matches an option that has a handler (for a valued *)
(* option: once its value is parsed), the step calls that handler once,     *)
(* with the path or with the parsed value and the path, and parserRun       *)
(* returns: no error is raised whatever parameters or required options are  *)
(* missing, and from then on no further argument is read, no Leaf handler   *)
(* is called and nothing is thrown or written.  A step that throws has      *)
(* called no handler.                                                       *)
C8_OptionHandlerShortCircuit ==
    [][/\ AtHandlerOption
            => /\ pc' = "returned"
               /\ calls' = <<Call("option", Nearest(At(args, i)).node,
                                  Nearest(At(args, i)).index, HandlerArguments)>>
               /\ thrown' = None
               /\ out' = <<>>
               /\ i' = IF OptionAt(Nearest(At(args, i))).boolean THEN i ELSE i + 1
       /\ OptionHandlerCalled
            => \/ /\ pc' \in {"returned", "done"}
                  /\ calls' = calls
                  /\ i' = i
                  /\ thrown' = None
                  /\ out' = <<>>
               \/ pc = "done" /\ pc' = "idle"
       /\ (thrown = None /\ thrown' # None) => calls' = <<>>]_vars

\* move -h foo: help's handler is called although move's required parameter
\* object has no value, and foo is left unread
C8_Witness ==
    /\ config = "forest"
    /\ pc = "done"
    /\ path = <<1, 5>>
    /\ args = <<<<"-", "h">>, <<"f", "o", "o">>>>
    /\ i = 0
    /\ UnfilledRequired # {}
    /\ calls = <<Call("option", 1, 1, <<path>>)>>
    /\ ~Failed

-----------------------------------------------------------------------------
(* C9 *)

(* C9: whenever the resolver raises an error, the error carries the current *)
(* path, whose last node is the current node, and its message is empty      *)
(* exactly when the arguments are used up and the current node is a Branch; *)
(* and the arguments being used up at a Branch always raises that error.    *)
C9_EmptyMessageIsIncomplete ==
    [][/\ (pc = "loop" /\ pc' = "thrown")
            => /\ thrown' # None
               /\ thrown'[1].path = path
               /\ path[Len(path)] = command
               /\ (thrown'[1].message = <<>>) <=> (AtEndOfInput /\ IsBranch(command))
       /\ (AtEndOfInput /\ IsBranch(command))
            => /\ pc' = "thrown"
               /\ thrown' = Some(CliParseError(path, <<>>))
               /\ calls' = <<>>]_vars

\* out: the arguments end at the Branch out below the root
C9_Witness ==
    /\ pc = "thrown"
    /\ config = "lab"
    /\ path = <<1, 4>>
    /\ IsBranch(command)
    /\ command = 4
    /\ i >= Len(args)
    /\ thrown = Some(CliParseError(<<1, 4>>, <<>>))

-----------------------------------------------------------------------------
(* C10 *)

\* what CliMan.run writes for the error e: the error line when e has a
\* message, then the help of e.path
Display(e) ==
    (IF e.message # <<>>
     THEN <<[stream |-> "error", text |-> <<"error: ">> \o e.message \o <<"\n">>]>>
     ELSE <<>>)
    \o <<[stream |-> "info", text |-> help(e.path)]>>

\* the variables of the parse
parse == <<args, command, path, options, parameters, currentParameterIndex, i, calls>>

(* C10: when the resolver has raised an error, CliMan.run returns normally  *)
(* with the error gone, having written the line "error: <message>" exactly  *)
(* when the message is not empty and then one help rendering of the error's *)
(* path, and it parses nothing again; runNoWrapper returns the very error   *)
(* to its caller and writes nothing.  Nothing is written before an error is *)
(* raised, and neither call resumes the parse once it is over.              *)
C10_WrappedAndRawMode ==
    [][/\ (pc = "thrown" /\ mode = "run")
            => /\ pc' = "done"
               /\ thrown' = None
               /\ out' = Display(thrown[1])
               /\ parse' = parse
       /\ (pc = "thrown" /\ mode = "runNoWrapper")
            => /\ pc' = "done"
               /\ thrown' = thrown
               /\ out' = <<>>
               /\ parse' = parse
       /\ pc = "done" => pc' = "idle"
       /\ pc' = "thrown" => (thrown' # None /\ out' = <<>> /\ mode' = mode)
       /\ (pc' = "done" /\ mode' = "run") => thrown' = None
       /\ (pc' = "done" /\ mode' = "runNoWrapper") => out' = <<>>]_vars

\* run(["move", "-t"]): the error line and the help of forest move are written
C10_Witness ==
    /\ pc = "done"
    /\ mode = "run"
    /\ config = "forest"
    /\ thrown = None
    /\ calls = <<>>
    /\ Len(out) = 2
    /\ out[1] = [stream |-> "error",
                 text |-> <<"error: ">> \o UnknownOptionMessage(<<"-", "t">>) \o <<"\n">>]
    /\ out[2] = [stream |-> "info", text |-> help(<<1, 5>>)]

-----------------------------------------------------------------------------
(* C11 *)

\* what the end of input on the current Leaf makes of the slots no token has
\* filled, should every parameter with a default be optional
DefaultsStandIn ==
    \A k \in 1..Len(ParametersOf(command)) :
        LET spec == ParametersOf(command)[k]
        IN  k > currentParameterIndex =>
                /\ spec.default # None =>
                     /\ thrown' # Some(CliParseError(path,
                            MissingParameterMessage(fromCamel(spec.name))))
                     /\ calls' # <<>> =>
                            calls'[1].arguments[k] = ParseOrRaw(spec, spec.default[1])
                /\ (spec.default = None /\ spec.optional /\ ~spec.repeatable) =>
                     (calls' # <<>> => calls'[1].arguments[k] = Undefined)

(* C11: when the arguments run out at a Leaf, no slot that has a default    *)
(* and received no token is reported as a missing parameter, and a handler  *)
(* that is called receives in that position the default as its parser       *)
(* returns it (the default itself without a parser); an optional slot       *)
(* without default that received no token is passed as undefined.           *)
C11_DefaultedParameterOptional ==
    [][(AtEndOfInput /\ IsLeaf(command)) => DefaultsStandIn]_vars

-----------------------------------------------------------------------------
(* C12 *)

\* two JavaScript values are the same value
SameValue(a, b) == a.t = b.t /\ a = b

\* two options maps hold the same values under the same names
SameMap(a, b) == DOMAIN a = DOMAIN b /\ \A name \in DOMAIN a : SameValue(a[name], b[name])

\* the value the priming of a node seeds for its option o
Seed(o) ==
    IF o.default # None THEN ParseOrRaw(o, o.default[1])
    ELSE IF o.repeatable THEN Arr(<<>>)
    ELSE Bool(FALSE)

\* entering the node: every entry of the map is kept, and every new entry is
\* the seed of an option the node declares
DescentKeeps ==
    /\ \A name \in DOMAIN options :
           name \in DOMAIN options' /\ SameValue(options'[name], options[name])
    /\ \A name \in DOMAIN options' \ DOMAIN options :
           \E k \in 1..Len(OptionsOf(command)) :
               /\ OptionsOf(command)[k].name = name
               /\ SameValue(options'[name], Seed(OptionsOf(command)[k]))

\* the argument matches an option without handler, and for a valued option
\* the next argument is a value its parser accepts
AtStoredOption ==
    /\ AtArgument
    /\ Declaring(At(args, i)) # {}
    /\ LET o == OptionAt(Nearest(At(args, i)))
       IN  /\ ~o.handler
           /\ ~o.boolean =>
                /\ i + 1 < Len(args)
                /\ ParseOrRaw(o, At(args, i + 1)) # Null

\* the map after the option token: true for a boolean, the value appended
\* for a repeatable option, the value in place of the old one otherwise
TokenStored ==
    LET o == OptionAt(Nearest(At(args, i)))
        value == ParseOrRaw(o, At(args, i + 1))
    IN  SameMap(options', Put(options, o.name,
                                  IF o.boolean THEN Bool(TRUE)
                                  ELSE IF o.repeatable THEN Arr(Append(options[o.name].v, value))
                                  ELSE value))

(* C12: the options map is one map for the whole path.  Entering a node     *)
(* keeps every entry already in it and adds the seeds of the node's         *)
(* options; a matched option without handler sets true (boolean), appends   *)
(* its parsed value (repeatable) or replaces the value (otherwise) and      *)
(* changes no other entry; no other step of the parse changes the map; and  *)
(* the Leaf handler is handed the map as it then is.                        *)
C12_OptionValuesAccumulate ==
    [][/\ pc = "prime" => DescentKeeps
       /\ AtStoredOption => TokenStored
       /\ (pc \in {"loop", "thrown", "returned"} /\ ~AtStoredOption) => options' = options
       /\ (calls = <<>> /\ calls' # <<>> /\ calls'[1].kind = "command")
            => calls'[1].arguments[Len(calls'[1].arguments) - 1] = options]_vars

-----------------------------------------------------------------------------
(* C13 *)

\* the argument is a parameter value and the cursor stands on a declared slot
AtParameterValue ==
    /\ AtArgument
    /\ IsLeaf(command)
    /\ At(At(args, i), 0) # "-"
    /\ currentParameterIndex < Len(ParametersOf(command))

\* the ParameterSpec the cursor stands on
CurrentSlot == ParametersOf(command)[currentParameterIndex + 1]

(* C13: a repeatable slot starts as an empty collection; while the cursor   *)
(* of a Leaf stands on a repeatable slot, every argument that is not an     *)
(* option (and that the slot's parser accepts) is appended to the slot's    *)
(* collection, after the values already there, and the cursor stays: no     *)
(* such argument is an unexpected parameter.                                *)
C13_RepeatableAbsorbs ==
    [][/\ (pc = "prime" /\ IsLeaf(command))
            => \A k \in 1..Len(ParametersOf(command)) :
                   (ParametersOf(command)[k].repeatable /\ ParametersOf(command)[k].default = None)
                       => parameters'[k] = Arr(<<>>)
       /\ (AtParameterValue /\ CurrentSlot.repeatable
              /\ ParseOrRaw(CurrentSlot, At(args, i)) # Null)
            => /\ pc' = "loop"
               /\ thrown' = None
               /\ i' = i + 1
               /\ currentParameterIndex' = currentParameterIndex
               /\ Len(parameters') = Len(parameters)
               /\ \A k \in 1..Len(parameters) :
                      IF k = currentParameterIndex + 1
                      THEN /\ parameters'[k].t = "array"
                           /\ parameters'[k].v = Append(parameters[k].v,
                                                        ParseOrRaw(CurrentSlot, At(args, i)))
                      ELSE SameValue(parameters'[k], parameters[k])]_vars

\* run x 4 -l x: the three values are run's files, in the order given
C13_Witness ==
    /\ pc = "done"
    /\ config = "lab"
    /\ command = 2
    /\ LeafHandlerCalled
    /\ currentParameterIndex = 0
    /\ parameters = <<Arr(<<Str(<<"x">>), Str(<<"4">>), Str(<<"x">>)>>)>>
    /\ calls[1].arguments[1] = parameters[1]

-----------------------------------------------------------------------------
(* C14 *)

IsLower(c) == IndexIn(LowerCase, c) > 0

\* a hyphen-separated lowercase token: segments of lowercase letters or
\* digits, none of them empty (no leading, trailing or doubled hyphen)
IsExternalName(x) ==
    /\ x # <<>>
    /\ \A k \in 1..Len(x) : IsLower(x[k]) \/ IsDigit(x[k]) \/ x[k] = "-"
    /\ x[1] # "-"
    /\ x[Len(x)] # "-"
    /\ \A k \in 1..(Len(x) - 1) : ~(x[k] = "-" /\ x[k + 1] = "-")

\* every segment after the first begins with a letter
SegmentsStartWithLetter(x) ==
    \A k \in 1..(Len(x) - 1) : x[k] = "-" => IsLower(x[k + 1])

\* a camel-convention identifier of letters and digits
IsCamelName(y) ==
    /\ y # <<>>
    /\ \A k \in 1..Len(y) : IsLower(y[k]) \/ IsUpper(y[k]) \/ IsDigit(y[k])
    /\ IsLower(y[1])

\* both conversions have been applied to the name
RoundTripDone == pc = "codec" /\ Len(out) = 2

(* C14 as claimed: fromCamel(toCamel(x)) = x for every hyphen-separated     *)
(* lowercase token x without consecutive hyphens whose segments consist of  *)
(* lowercase letters or digits, and toCamel(fromCamel(y)) = y for every     *)
(* camel-convention identifier y of letters and digits.                     *)
C14_RoundTrip ==
    RoundTripDone =>
        /\ (mode = "external" /\ IsExternalName(args[1])) => out[2] = args[1]
        /\ (mode = "internal" /\ IsCamelName(args[1])) => out[2] = args[1]

(* C14 as amended: fromCamel(toCamel(x)) = x for every such token x in      *)
(* which every segment after the first begins with a letter, and            *)
(* toCamel(fromCamel(y)) = y for every camel-convention identifier y of     *)
(* letters and digits.                                                      *)
C14_RoundTripLetterSegments ==
    RoundTripDone =>
        /\ (mode = "external" /\ IsExternalName(args[1]) /\ SegmentsStartWithLetter(args[1]))
              => out[2] = args[1]
        /\ (mode = "internal" /\ IsCamelName(args[1])) => out[2] = args[1]

\* a-b becomes aB and comes back as a-b
C14_Witness ==
    /\ RoundTripDone
    /\ mode = "external"
    /\ args = <<<<"a", "-", "b">>>>
    /\ out = <<<<"a", "B">>, <<"a", "-", "b">>>>

-----------------------------------------------------------------------------
(* C15 *)

\* the spec has a parser and a default that the parser rejects
MalformedDefault(spec) ==
    /\ spec.parser # NoParser
    /\ spec.default # None
    /\ ApplyParser(spec.parser, spec.default[1]) = Null

\* the reject sentinel is among the values the Leaf handler received, as the
\* value of an option or parameter whose default is malformed
SentinelReceived ==
    \/ \E ref \in DeclaredOnPath :
           /\ MalformedDefault(OptionAt(ref))
           /\ OptionAt(ref).name \in DOMAIN ReceivedOptions
           /\ ReceivedOptions[OptionAt(ref).name] = Null
    \/ \E k \in 1..Len(ParametersOf(command)) :
           /\ MalformedDefault(ParametersOf(command)[k])
           /\ calls[1].arguments[k] = Null

(* C15: a default that its parser rejects is detected: no Leaf handler is   *)
(* called with the reject sentinel as the value of an option declared on    *)
(* the path, or of a parameter of the Leaf, whose default is malformed.     *)
C15_MalformedDefaultDetected == LeafHandlerCalled => ~SentinelReceived

-----------------------------------------------------------------------------
(* C16 *)

\* the children of node n ({} for a Leaf)
Children(n) ==
    IF Node(n).commands = None THEN {}
    ELSE {Node(n).commands[1][k] : k \in 1..Len(Node(n).commands[1])}

RECURSIVE Height(_)
\* the number of nodes on the longest path from n downwards
Height(n) ==
    IF Children(n) = {} THEN 1
    ELSE 1 + (CHOOSE h \in {Height(c) : c \in Children(n)} :
                  \A g \in {Height(c) : c \in Children(n)} : g <= h)

\* how the parse ended
EndedInLeafHandler == LeafHandlerCalled /\ thrown = None /\ out = <<>>
EndedInOptionHandler == OptionHandlerCalled /\ thrown = None /\ out = <<>>
EndedInError == calls = <<>> /\ Failed

\* a parse is under way
Parsing == pc \in {"prime", "loop", "thrown", "returned"}

\* a bound on the steps the parse can still take: two for every argument not
\* yet read, and those of entering the node and of ending the parse
StepsLeft ==
    CASE pc = "prime" -> 2 * Len(args) + 5
      [] pc = "loop" -> 2 * (Len(args) - i) + 4
      [] pc \in {"thrown", "returned"} -> 1
      [] OTHER -> 0

\* the loop iteration either goes on with the loop index advanced, or hands
\* the child the arguments after the command name, or ends the parse
Consumes ==
    \/ pc' = "loop" /\ i' > i /\ args' = args
    \/ /\ pc' = "prime"
       /\ args' = Slice(args, i + 1)
       /\ Len(args') < Len(args)
       /\ command' \in Children(command)
    \/ pc' \in {"thrown", "returned"}

(* C16: every parse ends, in exactly one of three ways: the Leaf handler    *)
(* was called, an option handler was called, or a parse error was raised.   *)
(* Every loop iteration either advances the loop index, or hands a child    *)
(* fewer arguments than there were, or ends the parse; the path never holds *)
(* more nodes than the tree is deep; and every step of a parse under way    *)
(* lowers a bound that is never negative, so no parse goes on for ever.     *)
C16_ParseTerminates ==
    /\ [][AtArgument => Consumes]_vars
    /\ [](Parsing => Len(path) <= Height(1) /\ StepsLeft >= 0)
    /\ [](pc = "done"
            => /\ EndedInLeafHandler \/ EndedInOptionHandler \/ EndedInError
               /\ ~(EndedInLeafHandler /\ EndedInOptionHandler)
               /\ ~(EndedInLeafHandler /\ EndedInError)
               /\ ~(EndedInOptionHandler /\ EndedInError))
    /\ [][Parsing => (StepsLeft' < StepsLeft /\ (pc' \in {"done"} \/ Parsing'))]_vars

\* add -s 4 tree -t oak: two descents in a tree three nodes deep, ended in
\* tree's handler
C16_Witness ==
    /\ pc = "done"
    /\ config = "forest"
    /\ Len(path) = 3
    /\ Height(1) = 3
    /\ EndedInLeafHandler
    /\ i = Len(args)

-----------------------------------------------------------------------------
(* C17 *)

\* the options of the node being entered whose name already has an entry
AlreadyPresent ==
    {k \in 1..Len(OptionsOf(command)) : OptionsOf(command)[k].name \in DOMAIN options}

(* C17: entering a node initializes entries only for those of its options   *)
(* whose name has no entry yet: an entry already in the map under the name  *)
(* of one of the node's options is the same after the priming, and every    *)
(* entry the priming adds is under the name of one of the node's options.   *)
C17_PrimingKeepsPresent ==
    [][pc = "prime"
        => /\ \A k \in AlreadyPresent :
                  SameValue(options'[OptionsOf(command)[k].name],
                            options[OptionsOf(command)[k].name])
           /\ \A name \in DOMAIN options' \ DOMAIN options :
                  \E k \in 1..Len(OptionsOf(command)) : OptionsOf(command)[k].name = name]_vars

-----------------------------------------------------------------------------
(* C18 *)

MissingOptionValueMessage(arg) == <<"option \"">> \o arg \o <<"\" requires a value">>
InvalidOptionValueMessage(raw, arg) ==
    <<"invalid value \"">> \o raw \o <<"\" for option \"">> \o arg \o <<"\"">>

\* the argument matches an option that takes a value
AtValuedOption ==
    /\ AtArgument
    /\ Declaring(At(args, i)) # {}
    /\ ~OptionAt(Nearest(At(args, i))).boolean

\* what the step at a valued option does with the argument after it
ValueConsumed ==
    LET arg == At(args, i)
        ref == Nearest(arg)
        o == OptionAt(ref)
        raw == At(args, i + 1)
        value == ParseOrRaw(o, raw)
    IN  IF i + 1 >= Len(args)
        THEN /\ thrown' = Some(CliParseError(path, MissingOptionValueMessage(arg)))
             /\ calls' = <<>>
        ELSE IF value = Null
        THEN /\ thrown' = Some(CliParseError(path, InvalidOptionValueMessage(raw, arg)))
             /\ calls' = <<>>
        ELSE IF o.handler
        THEN /\ pc' = "returned"
             /\ calls' = <<Call("option", ref.node, ref.index, <<value, path>>)>>
        ELSE /\ pc' = "loop"
             /\ i' = i + 2
             /\ calls' = <<>>
             /\ thrown' = None
             /\ <<command, path, parameters, currentParameterIndex>>' =
                    <<command, path, parameters, currentParameterIndex>>
             /\ DOMAIN options' = DOMAIN options \cup {o.name}
             /\ IF o.repeatable
                THEN SameValue(options'[o.name], Arr(Append(options[o.name].v, value)))
                ELSE SameValue(options'[o.name], value)

(* C18: an argument that matches an option taking a value has the argument  *)
(* after it consumed as the raw value, whatever it looks like, and the loop *)
(* goes on behind the value: the value is not dispatched as an option, a    *)
(* command or a parameter.  Without a next argument the parse fails with    *)
(* the missing-value error, with a value the parser rejects it fails with   *)
(* the invalid-value error, and in both cases no handler is called, the     *)
(* option's own handler included.                                           *)
C18_ValuedOptionTakesNext == [][AtValuedOption => ValueConsumed]_vars

\* put -g -e: the value of tag is "-e", which at this place would otherwise
\* name the root's handler option explain
C18_Witness ==
    /\ pc = "loop"
    /\ config = "lab"
    /\ path = <<1, 3>>
    /\ args = <<<<"-", "g">>, <<"-", "e">>>>
    /\ i = 2
    /\ calls = <<>>
    /\ options[<<"t", "a", "g">>] = Arr(<<Str(<<"-", "e">>)>>)

-----------------------------------------------------------------------------
(* C19 *)

InvalidArgumentMessage(arg) == <<"invalid argument \"">> \o arg \o <<"\"">>

\* the loop is at an argument that begins with a dash
AtDashArgument == AtArgument /\ At(At(args, i), 0) = "-"

\* some option declared on the path has the name, or the symbol, key
OnPath(by, key) == \E ref \in DeclaredOnPath : Matches(OptionAt(ref), by, key)

\* the step is that of a lookup of the argument by name or by symbol: the
\* unknown-option error when nothing on the path matches, else neither that
\* error nor the invalid-argument error
LookedUp(by, key) ==
    IF OnPath(by, key)
    THEN ~(/\ thrown' # None
           /\ thrown'[1].message \in {UnknownOptionMessage(At(args, i)),
                                      InvalidArgumentMessage(At(args, i))})
    ELSE /\ thrown' = Some(CliParseError(path, UnknownOptionMessage(At(args, i))))
         /\ calls' = <<>>

\* the step at a dash argument, given which shape the argument is taken to have
Classified(long, short) ==
    /\ IF long THEN LookedUp("name", toCamel(Slice(At(args, i), 2)))
       ELSE IF short THEN LookedUp("symbol", At(At(args, i), 1))
       ELSE /\ thrown' = Some(CliParseError(path, InvalidArgumentMessage(At(args, i))))
            /\ calls' = <<>>
    /\ <<command, path, parameters, currentParameterIndex>>' =
           <<command, path, parameters, currentParameterIndex>>

(* C19 as claimed: an argument beginning with a dash is looked up by long   *)
(* name when it is longer than two characters and begins with two dashes,   *)
(* by symbol when it is exactly two characters long, and is an invalid      *)
(* argument otherwise; a lookup that finds nothing is an unknown option;    *)
(* the argument is never taken as a command name or a parameter value.      *)
C19_ShapeByLength ==
    [][AtDashArgument
        => Classified(Len(At(args, i)) > 2 /\ At(At(args, i), 1) = "-",
                      Len(At(args, i)) = 2)]_vars

(* C19 as amended: an argument beginning with two dashes, the bare "--"     *)
(* included, is looked up by long name (the rest converted, the empty name  *)
(* for "--"); an argument of exactly two characters whose second is not a   *)
(* dash is looked up by symbol; any other argument beginning with a dash is *)
(* an invalid argument; a lookup that finds nothing is an unknown option;   *)
(* the argument is never taken as a command name or a parameter value.      *)
C19_ShapeBySecondCharacter ==
    [][AtDashArgument
        => Classified(LongShape(At(args, i)), ShortShape(At(args, i)))]_vars

\* "--" at the root of kit, where mark has the symbol "-": the argument is
\* looked up by the empty name, and is an unknown option
C19_Witness ==
    /\ pc = "thrown"
    /\ config = "kit"
    /\ i < Len(args)
    /\ At(args, i) = <<"-", "-">>
    /\ OnPath("symbol", "-")
    /\ ~OnPath("name", <<>>)
    /\ thrown = Some(CliParseError(path, UnknownOptionMessage(<<"-", "-">>)))

-----------------------------------------------------------------------------
(* C20 *)

UnexpectedParameterMessage(arg) == <<"unexpected Parameter \"">> \o arg \o <<"\"">>
InvalidParameterValueMessage(arg, name) ==
    <<"invalid value \"">> \o arg \o <<"\" for Parameter \"">> \o name \o <<"\"">>

\* the positional buffers a and b hold the same values
SameSlots(a, b) == Len(a) = Len(b) /\ \A k \in 1..Len(a) : SameValue(a[k], b[k])

\* the step at an argument of a Leaf that does not begin with a dash
PositionalStep ==
    LET arg == At(args, i)
    IN  IF currentParameterIndex >= Len(ParametersOf(command))
        THEN /\ thrown' = Some(CliParseError(path, UnexpectedParameterMessage(arg)))
             /\ calls' = <<>>
             /\ SameSlots(parameters', parameters)
        ELSE IF ParseOrRaw(CurrentSlot, arg) = Null
        THEN /\ thrown' = Some(CliParseError(path,
                     InvalidParameterValueMessage(arg, fromCamel(CurrentSlot.name))))
             /\ calls' = <<>>
             /\ SameSlots(parameters', parameters)
             /\ currentParameterIndex' = currentParameterIndex
        ELSE ~CurrentSlot.repeatable
             => /\ pc' = "loop"
                /\ i' = i + 1
                /\ currentParameterIndex' = currentParameterIndex + 1
                /\ SameSlots(parameters',
                             [parameters EXCEPT ![currentParameterIndex + 1] =
                                 ParseOrRaw(CurrentSlot, arg)])

(* C20: the cursor of a Leaf starts at 0; an argument that does not begin   *)
(* with a dash and is assigned to a slot that is not repeatable fills the   *)
(* slot the cursor stands on and moves the cursor on by one; an option and  *)
(* its value leave the cursor and the slots as they are.  Such an argument  *)
(* fails as an unexpected parameter when the cursor has reached the number  *)
(* of declared slots (none declared included), and as an invalid parameter  *)
(* value, the slot left as it was, when the slot's parser rejects it.       *)
C20_PositionalCursor ==
    [][/\ (pc = "prime" /\ IsLeaf(command)) => currentParameterIndex' = 0
       /\ (AtArgument /\ IsLeaf(command) /\ At(At(args, i), 0) # "-") => PositionalStep
       /\ (AtDashArgument /\ IsLeaf(command))
            => /\ currentParameterIndex' = currentParameterIndex
               /\ SameSlots(parameters', parameters)]_vars

\* put x -g x 4: key is x and val is 4, the option and its value in between
C20_Witness ==
    /\ pc = "done"
    /\ config = "lab"
    /\ command = 3
    /\ LeafHandlerCalled
    /\ args = <<<<"x">>, <<"-", "g">>, <<"x">>, <<"4">>>>
    /\ currentParameterIndex = 2
    /\ parameters = <<Str(<<"x">>), Str(<<"4">>)>>
    /\ options[<<"t", "a", "g">>] = Arr(<<Str(<<"x">>)>>)

-----------------------------------------------------------------------------
(* C21 *)

UnknownCommandMessage(arg) == <<"unrecognized command \"">> \o arg \o <<"\"">>

\* the loop is about to dispatch an argument without a leading dash while the
\* current node is a Branch
AtCommandName == AtArgument /\ At(At(args, i), 0) # "-" /\ IsBranch(command)

\* the positions, in declaration order, of the children of n named by arg
NamedChildren(n, arg) ==
    {k \in 1..Len(Node(n).commands[1]) :
        Node(Node(n).commands[1][k]).name = toCamel(arg)}

\* the least position of a non-empty set of positions
First(S) == CHOOSE k \in S : \A m \in S : k <= m

(* C21: an argument without a leading dash met at a Branch is converted to  *)
(* internal form and compared with the names of the Branch's children in    *)
(* declaration order.  With no child of that name the parse fails with the  *)
(* unrecognized-command error; otherwise the first such child is entered    *)
(* with exactly the arguments after this one, path and option values as     *)
(* they are.  The current node changes only by such a descent, a node left  *)
(* behind on the path is never the current node again, and the error        *)
(* without a message is raised only for the node current at the end of the  *)
(* arguments.                                                               *)
C21_CommandDescent ==
    /\ [][AtCommandName =>
            LET arg == At(args, i)
                matches == NamedChildren(command, arg)
            IN  IF matches = {}
                THEN /\ pc' = "thrown"
                     /\ thrown' = Some(CliParseError(path, UnknownCommandMessage(arg)))
                     /\ calls' = calls
                ELSE /\ pc' = "prime"
                     /\ command' = Node(command).commands[1][First(matches)]
                     /\ args' = Slice(args, i + 1)
                     /\ path' = path
                     /\ SameMap(options', options)
                     /\ thrown' = None
                     /\ calls' = calls]_vars
    /\ [][(Parsing /\ command' # command)
            => (AtCommandName /\ command' \in Children(command))]_vars
    /\ [](Parsing => \A k \in 1..Len(path) :
                        path[k] = command => (k = Len(path) /\ pc # "prime"))
    /\ [](thrown # None /\ thrown[1].message = <<>>
            => /\ thrown[1].path[Len(thrown[1].path)] = command
               /\ IsBranch(command)
               /\ i >= Len(args))

\* kit, --mark x get x 4: two children are named get; the first one declared
\* has been chosen and is about to be entered with the two arguments after
\* the name
C21_Witness ==
    /\ config = "kit"
    /\ pc = "prime"
    /\ path = <<1>>
    /\ command = 2
    /\ Node(3).name = Node(2).name
    /\ args = << <<"x">>, <<"4">> >>
    /\ DOMAIN options = {<<"d", "e", "p", "t", "h">>, <<"m", "a", "r", "k">>}

-----------------------------------------------------------------------------
(* C22 *)

\* p starts at the root and each element is a child of the one before it
IsChain(p) ==
    /\ Len(p) >= 1
    /\ p[1] = 1
    /\ \A k \in 2..Len(p) : p[k] \in Children(p[k - 1])

(* C22: once a node has been entered the path is a chain from the root,     *)
(* each element a child of the one before, ending at the current node; on   *)
(* the call of parserRun for a node, before its push, the path is that      *)
(* chain for the node's parent (empty for the root).  Entering a node       *)
(* appends exactly that node and no other step of a parse changes the path. *)
(* An error in flight carries the path as it is, and every handler called   *)
(* has the path as it is as its last argument.                              *)
C22_PathIsChain ==
    /\ [](pc \in {"loop", "thrown", "returned", "done"}
            => IsChain(path) /\ path[Len(path)] = command)
    /\ [](pc = "prime"
            => IF path = <<>> THEN command = 1
               ELSE IsChain(path) /\ command \in Children(path[Len(path)]))
    /\ [][Parsing => IF pc = "prime" THEN path' = Append(path, command)
                     ELSE path' = path]_vars
    /\ [](thrown # None => thrown[1].path = path)
    /\ [](\A k \in 1..Len(calls) :
            calls[k].arguments[Len(calls[k].arguments)] = path)

\* forest, add foo: the lookup of foo fails at add, and the error carries the
\* path from the root to add
C22_Witness ==
    /\ config = "forest"
    /\ pc = "thrown"
    /\ command = 2
    /\ thrown[1].message = UnknownCommandMessage(<<"f", "o", "o">>)
    /\ thrown[1].path = <<1, 2>>
    /\ IsBranch(2)

-----------------------------------------------------------------------------
(* C23 *)

\* the required option without a value that comes first in path order (root
\* first) and, within a node, in declaration order
FirstUnsupplied ==
    CHOOSE ref \in Unsupplied :
        \A o \in Unsupplied :
            \/ Depth(ref.node) < Depth(o.node)
            \/ ref.node = o.node /\ ref.index <= o.index

\* the error in flight is one of completion validation
ValidationError ==
    /\ thrown # None
    /\ \/ \E k \in 1..Len(ParametersOf(command)) :
            thrown[1].message = MissingParameterMessage(fromCamel(ParametersOf(command)[k].name))
       \/ \E ref \in DeclaredOnPath :
            thrown[1].message = MissingOptionMessage(fromCamel(OptionAt(ref).name))

(* C23: when the arguments run out at a Leaf, completion validation reports *)
(* the first failure in a fixed order: a missing-parameter error when a     *)
(* required parameter has no value, whatever required options are missing;  *)
(* otherwise, when required options have no value, the missing-option error *)
(* naming the first of them in path order, root first, and in declaration   *)
(* order within a node.  An error of completion validation is raised only   *)
(* after the last argument has been dispatched.                             *)
C23_FirstFailureReported ==
    /\ [][(AtEndOfInput /\ IsLeaf(command))
            => IF UnfilledRequired # {} \/ RepeatableEmpty
               THEN /\ pc' = "thrown"
                    /\ \E k \in 1..Len(ParametersOf(command)) :
                         thrown' = Some(CliParseError(path,
                             MissingParameterMessage(fromCamel(ParametersOf(command)[k].name))))
               ELSE Unsupplied # {}
                    => /\ pc' = "thrown"
                       /\ thrown' = Some(CliParseError(path,
                              MissingOptionMessage(fromCamel(OptionAt(FirstUnsupplied).name))))]_vars
    /\ [](ValidationError => i >= Len(args) /\ calls = <<>>)

-----------------------------------------------------------------------------
(* C24 *)

\* the catch block has written the help of the path
HelpShown == pc = "done" /\ out # <<>>

\* the option groups of the help written last
ShownGroups == out[Len(out)].text.options

\* the signatures of the options of node n that are required (or are not),
\* in declaration order
Entries(n, required) ==
    LET chosen == SelectSeq(OptionsOf(n), LAMBDA o : o.required = required)
    IN  [k \in 1..Len(chosen) |-> helpOption(chosen[k])]

RECURSIVE RequiredEntries(_, _)
\* the required signatures of p[k], then those of p[k - 1], down to the root
RequiredEntries(p, k) ==
    IF k = 0 THEN <<>> ELSE Entries(p[k], TRUE) \o RequiredEntries(p, k - 1)

RECURSIVE Dedup(_)
\* s without the repetitions of an element that has appeared before
Dedup(s) ==
    IF s = <<>> THEN <<>>
    ELSE LET front == Dedup(SubSeq(s, 1, Len(s) - 1))
         IN  IF \E k \in 1..Len(front) : front[k] = s[Len(s)]
             THEN front ELSE Append(front, s[Len(s)])

RECURSIVE ShownPositions(_, _)
\* the positions k, k - 1, ..., 1 of p whose node has options that are not required
ShownPositions(p, k) ==
    IF k = 0 THEN <<>>
    ELSE (IF Entries(p[k], FALSE) # <<>> THEN <<k>> ELSE <<>>) \o ShownPositions(p, k - 1)

\* the label of the group of the node at position k of p
Label(p, k) ==
    IF k = Len(p) THEN <<"Options">>
    ELSE IF k = 1 THEN <<"Global options">>
    ELSE <<"Inherited options (">> \o fromCamel(Node(p[k]).name) \o <<")">>

\* the groups in the stated order, the group of required options holding required
GroupsInOrder(p, required) ==
    LET shown == ShownPositions(p, Len(p))
    IN  (IF required # <<>>
         THEN <<[name |-> <<"Required options">>, pairs |-> required]>> ELSE <<>>)
        \o [j \in 1..Len(shown) |->
               [name |-> Label(p, shown[j]), pairs |-> Entries(p[shown[j]], FALSE)]]

(* C24 as stated: the option groups of the help of a path are, in this      *)
(* order, one group of the required options of every node on the path with  *)
(* repetitions removed, a group Options of the current node's options that  *)
(* are not required, and one group per ancestor with such options,          *)
(* innermost first, labelled by the ancestor's name, the root's as global;  *)
(* no group is empty.                                                       *)
C24_GroupsDeduplicated ==
    HelpShown
        => /\ ShownGroups = GroupsInOrder(path, Dedup(RequiredEntries(path, Len(path))))
           /\ \A k \in 1..Len(ShownGroups) : ShownGroups[k].pairs # <<>>

(* C24 amended: the same groups in the same order, the group of required    *)
(* options holding one entry for every required option declared by a node   *)
(* on the path, the current node's first and the root's last, in            *)
(* declaration order within a node: an option declared again by a           *)
(* descendant is listed once for each declaration.  No group is empty, and  *)
(* the other groups hold exactly their node's options that are not          *)
(* required.                                                                *)
C24_GroupsPerDeclaration ==
    HelpShown
        => /\ ShownGroups = GroupsInOrder(path, RequiredEntries(path, Len(path)))
           /\ \A k \in 1..Len(ShownGroups) : ShownGroups[k].pairs # <<>>

\* deck, card show: the parse fails at show for the missing token; the help
\* lists token twice under Required options, has no group for show, which
\* declares no options, and then card's group and the root's
C24_Witness ==
    /\ config = "deck"
    /\ HelpShown
    /\ path = <<1, 2, 3>>
    /\ Len(ShownGroups) = 3
    /\ ShownGroups[1].name = <<"Required options">>
    /\ Len(ShownGroups[1].pairs) = 2
    /\ ShownGroups[1].pairs[1] = ShownGroups[1].pairs[2]
    /\ ShownGroups[2].name = <<"Inherited options (">> \o <<"c", "a", "r", "d">> \o <<")">>
    /\ ShownGroups[3].name = <<"Global options">>

-----------------------------------------------------------------------------
(* C25 *)

\* run / runNoWrapper is called
StartOfParse == pc = "idle" /\ pc' = "prime"

\* a is an empty collection
IsEmptyCollection(a) == a.t = "array" /\ a.v = <<>>

(* C25: no step of a parse changes the tree or an object it holds; every    *)
(* call of run / runNoWrapper starts at the root with an empty path and an  *)
(* empty options object, and entering a node gives each of its repeatable   *)
(* options and parameters without default an empty collection.  So all a    *)
(* parse reads is, at its start, as it was when the instance was made, and  *)
(* its outcome does not depend on the parses before it.                     *)
C25_ParsesShareNoState ==
    /\ [][StartOfParse
            => /\ command' = 1
               /\ path' = <<>>
               /\ DOMAIN options' = {}
               /\ parameters' = <<>>
               /\ calls' = <<>>
               /\ thrown' = None]_vars
    /\ [][pc = "prime"
            => /\ \A k \in 1..Len(OptionsOf(command)) :
                    (OptionsOf(command)[k].repeatable /\ ~Truthy(OptionsOf(command)[k].default))
                        => IsEmptyCollection(options'[OptionsOf(command)[k].name])
               /\ \A k \in 1..Len(ParametersOf(command)) :
                    (ParametersOf(command)[k].repeatable /\ ~Truthy(ParametersOf(command)[k].default))
                        => IsEmptyCollection(parameters'[k])]_vars
    /\ [][Parsing => (config' = config /\ lastIndex' = lastIndex)]_vars
    /\ [][StartOfParse => (config' = config /\ lastIndex' = 0)]_vars

-----------------------------------------------------------------------------
(* C26 *)

\* the number parser has been applied to the string args[1]
NumberApplied == pc = "parser" /\ out # <<>>

\* the whole of value is an optional sign followed by a dot and digits, or by
\* digits and optionally a dot and digits
IsNumeral(value) ==
    LET a == SignLen(value, 0)
    IN  \/ /\ a < Len(value)
           /\ At(value, a) = "."
           /\ DigitsFrom(value, a + 1) >= 1
           /\ a + 1 + DigitsFrom(value, a + 1) = Len(value)
        \/ DigitsToTheEnd(value, 0)

(* C26: the number parser accepts a string exactly when the whole of it is  *)
(* an optional sign followed by a dot and one or more digits, or by one or  *)
(* more digits and optionally a dot and one or more digits; every other     *)
(* string gets the reject sentinel null.                                    *)
C26_NumberWholeToken ==
    NumberApplied => (out[1].t # "null" <=> IsNumeral(args[1]))

====
